---- MODULE Spec2Model ----
(***************************************************************************)
(* Tornado shelter weather services: the direct-API WeatherDataService     *)
(* (services/weatherDataService.js) and the Supabase-backed                *)
(* WeatherDataService, with the SimpleCache the direct services share.     *)
(*                                                                         *)
(* Strings are sequences of one-character strings, so toLowerCase and      *)
(* String.includes are computed character by character.  Times are in      *)
(* milliseconds.  Coordinates are in thousandths of a degree and all       *)
(* modelled points lie on one meridian.                                    *)
(***************************************************************************)
EXTENDS Integers, Sequences, FiniteSets, TLC

VARIABLES
    in_alerts,      \* SpecThreat: NWS feature properties handed to the cascade
    in_reports,     \* SpecThreat: the reports object {tornado: [...]}
    levelDirect,    \* SpecThreat: result of the direct calculateThreatLevel
    levelSupabase,  \* SpecThreat: result of the Supabase calculateThreatLevel
    prev,           \* SpecThreat: the reports and levels before the latest Reassess
    metrics,        \* SpecForward: the Open-Meteo metrics of one location
    assessment,     \* SpecForward: what assessTornadoThreat(metrics) returned
    csvLines,       \* SpecCsv: the lines of a storm-report file, split at commas
    parsed,         \* SpecCsv: what parseStormReportsCSV returned, once done
    alertCalls,     \* SpecConcurrent: the getActiveAlerts calls, in call order
    alertLog,       \* SpecConcurrent: the calls made and responses consumed,
                    \* oldest first
    cache,          \* SimpleCache.cache: key -> {data, expiry}
    now,            \* Date.now()
    getResult,      \* SpecCache: what the latest SimpleCache.get returned
    lastSet,        \* SpecCache: per key, the latest set since the last clear
    world,          \* which of the Worlds the providers answer from
    app,            \* which WeatherDataService the application uses
    call,           \* the fetchAllData call in flight, or [impl |-> "none"]
    done,           \* the fetchAllData calls that have returned and the
                    \* clearCache calls made, oldest first
    db              \* the Supabase tables the Supabase-backed service writes

threatVars == <<in_alerts, in_reports, levelDirect, levelSupabase, prev,
                metrics, assessment, csvLines, parsed, alertCalls, alertLog>>

cacheVars == <<cache, now, getResult, lastSet>>

serviceVars == <<world, app, call, done, db>>

vars == <<in_alerts, in_reports, levelDirect, levelSupabase, prev,
          metrics, assessment, csvLines, parsed, alertCalls, alertLog,
          cache, now, getResult, lastSet, world, app, call, done, db>>

----------------------------------------------------------------------------
(* Bounds *)

MaxAlerts == 2
MaxReports == 2
MaxClock == 4       \* SpecCache: the clock stops here
MaxTtl == 2         \* SpecCache: durations 0..MaxTtl
MaxCalls == 2       \* SpecPolling: fetchAllData calls per behaviour
MaxTicks == 1       \* SpecPolling: clock steps of TickMs per behaviour
MaxLines == 2       \* SpecCsv: data lines of a storm-report file
MaxAlertCalls == 2  \* SpecConcurrent: getActiveAlerts calls per behaviour
MaxAlertTicks == 2  \* SpecConcurrent: clock steps of AlertTickMs per behaviour
AlertTickMs == 120000 \* SpecConcurrent: the clock step, the alerts TTL
TickMs == 150000    \* SpecPolling: the clock step, 2.5 minutes

----------------------------------------------------------------------------
(* Event names of the NWS feed and the keywords the services search for *)

\* the characters of the event names the modelled feeds carry
chars(str) ==
    CASE str = "Tornado Warning" ->
            <<"T","o","r","n","a","d","o"," ","W","a","r","n","i","n","g">>
      [] str = "TORNADO WATCH" ->
            <<"T","O","R","N","A","D","O"," ","W","A","T","C","H">>
      [] str = "Severe Thunderstorm Warning" ->
            <<"S","e","v","e","r","e"," ","T","h","u","n","d","e","r","s","t","o","r","m"," ","W","a","r","n","i","n","g">>
      [] str = "Severe Thunderstorm Watch" ->
            <<"S","e","v","e","r","e"," ","T","h","u","n","d","e","r","s","t","o","r","m"," ","W","a","t","c","h">>
      [] str = "Flood Advisory" ->
            <<"F","l","o","o","d"," ","A","d","v","i","s","o","r","y">>

EventNames ==
    {"Tornado Warning", "TORNADO WATCH", "Severe Thunderstorm Warning",
     "Severe Thunderstorm Watch", "Flood Advisory"}

KwTornadoWarning ==
    <<"t","o","r","n","a","d","o"," ","w","a","r","n","i","n","g">>
KwTornadoWatch ==
    <<"t","o","r","n","a","d","o"," ","w","a","t","c","h">>
KwSevereTstormWarning ==
    <<"s","e","v","e","r","e"," ","t","h","u","n","d","e","r","s","t","o","r","m"," ","w","a","r","n","i","n","g">>
KwWatch ==
    <<"w","a","t","c","h">>
KwTornado ==
    <<"t","o","r","n","a","d","o">>
KwSevereTstorm ==
    <<"s","e","v","e","r","e"," ","t","h","u","n","d","e","r","s","t","o","r","m">>

UpperChars ==
    <<"A","B","C","D","E","F","G","H","I","J","K","L","M","N","O","P","Q","R","S","T","U","V","W","X","Y","Z">>
LowerChars ==
    <<"a","b","c","d","e","f","g","h","i","j","k","l","m","n","o","p","q","r","s","t","u","v","w","x","y","z">>

\* String.prototype.toLowerCase on one character
lowerChar(c) ==
    IF \E i \in 1..Len(UpperChars) : UpperChars[i] = c
    THEN LowerChars[CHOOSE i \in 1..Len(UpperChars) : UpperChars[i] = c]
    ELSE c

\* String.prototype.toLowerCase
toLowerCase(s) == [i \in 1..Len(s) |-> lowerChar(s[i])]

\* String.prototype.includes
includes(s, sub) ==
    \E i \in 0..(Len(s) - Len(sub)) : SubSeq(s, i + 1, i + Len(sub)) = sub

\* a.event?.toLowerCase().includes(kw): undefined (falsy) when the field is
\* missing
eventIncludes(a, field, kw) ==
    IF field \in DOMAIN a THEN includes(toLowerCase(chars(a[field])), kw) ELSE FALSE

\* Array.prototype.some
some(arr, P(_)) == \E i \in 1..Len(arr) : P(arr[i])

----------------------------------------------------------------------------
(* Array helpers and geometry *)

\* Array.prototype.filter
RECURSIVE filterIdx(_, _)
filterIdx(keep, n) ==
    IF n = 0 THEN <<>>
    ELSE IF keep[n] THEN Append(filterIdx(keep, n - 1), n)
         ELSE filterIdx(keep, n - 1)

filter(arr, P(_)) ==
    LET idx == filterIdx([i \in 1..Len(arr) |-> P(arr[i])], Len(arr))
    IN  [k \in 1..Len(idx) |-> arr[idx[k]]]

\* Array.prototype.sort((a, b) => K(a) - K(b)): a stable sort by the key
sort(arr, K(_)) ==
    LET n == Len(arr)
        pos(i) == 1 + Cardinality({ j \in 1..n :
                        \/ K(arr[j]) < K(arr[i])
                        \/ K(arr[j]) = K(arr[i]) /\ j < i })
    IN  [p \in 1..n |-> arr[CHOOSE i \in 1..n : pos(i) = p]]

\* arr[0] || null: the list holding arr[0], empty for null
firstOrNull(arr) == IF Len(arr) > 0 THEN <<arr[1]>> ELSE <<>>

\* the value of a distance computed from a coordinate that is no number
NaN == -1

Abs(x) == IF x < 0 THEN -x ELSE x

\* calculateDistanceMiles for two points of one meridian (dLon = 0, so the
\* haversine gives R * |dLat|, R = 3959 mi): thousandths of a mile for
\* latitudes in thousandths of a degree, 69.098 mi per degree
calculateDistanceMiles(lat1, lon1, lat2, lon2) ==
    IF ~lat1.num \/ ~lon1.num THEN NaN
    ELSE (69098 * Abs(lat2 - lat1.v)) \div 1000

\* Math.round(distance * 10) / 10, in tenths of a mile
roundTenth(d) == IF d = NaN THEN NaN ELSE (d + 50) \div 100

\* Number.prototype.toFixed(2), in hundredths of a degree
toFixed2(v) == IF v >= 0 THEN (v + 5) \div 10 ELSE -((-v + 5) \div 10)

\* CONFIG.CACHE_DURATION
ALERTS == 2 * 60 * 1000
SHELTERS == 5 * 60 * 1000
STORM_REPORTS == 10 * 60 * 1000

----------------------------------------------------------------------------
(* SimpleCache *)

\* the empty Map
EmptyMap == [k \in {} |-> 0]

\* a get that treats the expiry time itself as expired
getExpiredAtExpiry(c, key, t) ==
    IF key \notin DOMAIN c
    THEN [found |-> FALSE, cache |-> c]
    ELSE IF t >= c[key].expiry
         THEN [found |-> FALSE, cache |-> [k \in DOMAIN c \ {key} |-> c[k]]]
         ELSE [found |-> TRUE, data |-> c[key].data, cache |-> c]

\* SimpleCache.get: found is false where the code returns null; cache is
\* the Map after the call (a stale entry is deleted)
get(c, key, t) ==
    IF key \notin DOMAIN c
    THEN [found |-> FALSE, cache |-> c]
    ELSE IF t > c[key].expiry
         THEN [found |-> FALSE, cache |-> [k \in DOMAIN c \ {key} |-> c[k]]]
         ELSE [found |-> TRUE, data |-> c[key].data, cache |-> c]

\* a set that stores the duration as the expiry time
setExpiryIsDuration(c, key, data, durationMs, t) ==
    [k \in DOMAIN c \cup {key} |->
        IF k = key THEN [data |-> data, expiry |-> durationMs] ELSE c[k]]

\* SimpleCache.set
set(c, key, data, durationMs, t) ==
    [k \in DOMAIN c \cup {key} |->
        IF k = key THEN [data |-> data, expiry |-> t + durationMs] ELSE c[k]]

\* a clear that drops nothing
clearKeepsEntries(c) == c

\* SimpleCache.clear
clear(c) == EmptyMap

\* the variables of the cache when no cache operation is modelled
CacheIdle ==
    /\ cache = EmptyMap
    /\ now = 0
    /\ getResult = [key |-> "none"]
    /\ lastSet = EmptyMap

\* the variables of the services when no fetchAllData call is modelled
ServiceIdle ==
    /\ world = 0
    /\ app = [impl |-> "none"]
    /\ call = [impl |-> "none"]
    /\ done = <<>>
    /\ db = [weather_alerts_history |-> {}, storm_reports_history |-> <<>>]

\* the variables of the cascade when no assessment is modelled
ThreatIdle ==
    /\ in_alerts = <<>>
    /\ in_reports = [tornado |-> <<>>]
    /\ levelDirect = "unset"
    /\ levelSupabase = "unset"
    /\ prev = [reassessed |-> FALSE]
    /\ metrics = <<>>
    /\ assessment = [level |-> "unset"]
    /\ csvLines = <<>>
    /\ parsed = [done |-> FALSE]
    /\ alertCalls = <<>>
    /\ alertLog = <<>>

----------------------------------------------------------------------------
(* Threat cascade *)

Levels == {"NONE", "LOW", "MODERATE", "ELEVATED", "HIGH", "EXTREME"}

\* a cascade that tests the watch-and-report rule before the warning rule
watchBeforeWarning(alerts, reports) ==
    LET hasTornadoWarning ==
            some(alerts, LAMBDA a : eventIncludes(a, "event", KwTornadoWarning))
        hasTornadoWatch ==
            some(alerts, LAMBDA a : eventIncludes(a, "event", KwTornadoWatch))
        hasNearbyTornado ==
            "tornado" \in DOMAIN reports /\ Len(reports.tornado) > 0
    IN  IF hasTornadoWatch /\ hasNearbyTornado THEN "HIGH"
        ELSE IF hasTornadoWarning THEN "EXTREME"
        ELSE IF hasTornadoWatch \/ hasNearbyTornado THEN "ELEVATED"
        ELSE IF Len(alerts) > 0 THEN "LOW"
        ELSE "NONE"

\* a cascade that matches event names exactly instead of by substring
exactMatchCascade(alerts, reports) ==
    LET is(a, kw) == "event" \in DOMAIN a /\ toLowerCase(chars(a.event)) = kw
        hasNearbyTornado ==
            "tornado" \in DOMAIN reports /\ Len(reports.tornado) > 0
    IN  IF some(alerts, LAMBDA a : is(a, KwTornadoWarning)) THEN "EXTREME"
        ELSE IF some(alerts, LAMBDA a : is(a, KwTornadoWatch)) /\ hasNearbyTornado
             THEN "HIGH"
        ELSE IF some(alerts, LAMBDA a : is(a, KwTornadoWatch)) \/ hasNearbyTornado
             THEN "ELEVATED"
        ELSE IF some(alerts, LAMBDA a : is(a, KwSevereTstormWarning)) THEN "ELEVATED"
        ELSE IF some(alerts, LAMBDA a : is(a, KwWatch)) THEN "MODERATE"
        ELSE IF Len(alerts) > 0 THEN "LOW"
        ELSE "NONE"

\* WeatherDataService.calculateThreatLevel of the direct-API service
calculateThreatLevel(alerts, reports) ==
    LET hasTornadoWarning ==
            some(alerts, LAMBDA a : eventIncludes(a, "event", KwTornadoWarning))
        hasTornadoWatch ==
            some(alerts, LAMBDA a : eventIncludes(a, "event", KwTornadoWatch))
        hasNearbyTornado ==
            "tornado" \in DOMAIN reports /\ Len(reports.tornado) > 0
        hasSevereWarning ==
            some(alerts, LAMBDA a : eventIncludes(a, "event", KwSevereTstormWarning))
        hasWatch ==
            some(alerts, LAMBDA a : eventIncludes(a, "event", KwWatch))
    IN  IF hasTornadoWarning THEN "EXTREME"
        ELSE IF hasTornadoWatch /\ hasNearbyTornado THEN "HIGH"
        ELSE IF hasTornadoWatch \/ hasNearbyTornado THEN "ELEVATED"
        ELSE IF hasSevereWarning THEN "ELEVATED"
        ELSE IF hasWatch THEN "MODERATE"
        ELSE IF Len(alerts) > 0 THEN "LOW"
        ELSE "NONE"

\* a cascade that tests watch-or-report before watch-and-report
sbOrBeforeAnd(alerts, reports) ==
    LET hasTornadoWarning ==
            some(alerts, LAMBDA a : eventIncludes(a, "event_type", KwTornadoWarning))
        hasTornadoWatch ==
            some(alerts, LAMBDA a : eventIncludes(a, "event_type", KwTornadoWatch))
        hasNearbyTornado ==
            "tornado" \in DOMAIN reports /\ Len(reports.tornado) > 0
    IN  IF hasTornadoWarning THEN "EXTREME"
        ELSE IF hasTornadoWatch \/ hasNearbyTornado THEN "ELEVATED"
        ELSE IF hasTornadoWatch /\ hasNearbyTornado THEN "HIGH"
        ELSE IF Len(alerts) > 0 THEN "MODERATE"
        ELSE "NONE"

\* WeatherDataService.calculateThreatLevel of the Supabase-backed service
sbCalculateThreatLevel(alerts, reports) ==
    LET hasTornadoWarning ==
            some(alerts, LAMBDA a : eventIncludes(a, "event_type", KwTornadoWarning))
        hasTornadoWatch ==
            some(alerts, LAMBDA a : eventIncludes(a, "event_type", KwTornadoWatch))
        hasNearbyTornado ==
            "tornado" \in DOMAIN reports /\ Len(reports.tornado) > 0
        hasSevereWarning ==
            some(alerts, LAMBDA a : eventIncludes(a, "event_type", KwSevereTstormWarning))
    IN  IF hasTornadoWarning THEN "EXTREME"
        ELSE IF hasTornadoWatch /\ hasNearbyTornado THEN "HIGH"
        ELSE IF hasTornadoWatch \/ hasNearbyTornado THEN "ELEVATED"
        ELSE IF hasSevereWarning THEN "ELEVATED"
        ELSE IF Len(alerts) > 0 THEN "MODERATE"
        ELSE "NONE"

----------------------------------------------------------------------------
(* Alert extraction *)

\* NWSAlertsService.getActiveAlerts, the feature -> alert mapping of the
\* direct-API service (event stays undefined when the feed omits it)
nwsAlert(props) ==
    LET base == [id |-> props.id,
                 severity |-> props.severity,
                 onset |-> props.onset,
                 isTornadoWarning |-> eventIncludes(props, "event", KwTornado),
                 isSevereThunderstorm |-> eventIncludes(props, "event", KwSevereTstorm)]
    IN  IF "event" \in DOMAIN props THEN base @@ [event |-> props.event] ELSE base

\* NWSAlertsService.getActiveAlerts, the feature -> alert mapping of the
\* Supabase-backed service
sbAlert(props) ==
    LET base == [nws_alert_id |-> props.id,
                 severity |-> props.severity,
                 onset_time |-> props.onset,
                 is_tornado_related |-> eventIncludes(props, "event", KwTornado),
                 is_severe_thunderstorm |-> eventIncludes(props, "event", KwSevereTstorm)]
    IN  IF "event" \in DOMAIN props THEN base @@ [event_type |-> props.event] ELSE base

\* Array.prototype.map
map(arr, F(_)) == [i \in 1..Len(arr) |-> F(arr[i])]

----------------------------------------------------------------------------
(* SpecThreat: the two cascades applied to bounded alert lists and reports *)

\* feature.properties of the alerts the cascade is tried on
ThreatProps ==
    { [id |-> 1, severity |-> "Severe", onset |-> 0, event |-> e] :
        e \in EventNames }
    \cup { [id |-> 1, severity |-> "Severe", onset |-> 0] }

\* a parsed tornado report of today's file
ThreatReport == [latitude |-> 35000, longitude |-> -97000]

SeqsUpTo(S, n) == UNION { [1..k -> S] : k \in 0..n }

\* the reports objects handed to the cascade; the last one has no tornado
\* list at all
ThreatReports ==
    { [tornado |-> [i \in 1..k |-> ThreatReport]] : k \in 0..MaxReports }
    \cup { [wind |-> <<>>] }

ThreatInit ==
    /\ in_alerts \in SeqsUpTo(ThreatProps, MaxAlerts)
    /\ in_reports \in ThreatReports
    /\ levelDirect = "unset"
    /\ levelSupabase = "unset"
    /\ prev = [reassessed |-> FALSE]
    /\ metrics = <<>>
    /\ assessment = [level |-> "unset"]
    /\ csvLines = <<>>
    /\ parsed = [done |-> FALSE]
    /\ alertCalls = <<>>
    /\ alertLog = <<>>
    /\ CacheIdle
    /\ ServiceIdle

\* service.calculateThreatLevel(alerts, reports) on the direct-API service
AssessDirect ==
    /\ levelDirect = "unset"
    /\ levelDirect' = calculateThreatLevel(map(in_alerts, nwsAlert), in_reports)
    /\ UNCHANGED <<in_alerts, in_reports, levelSupabase, prev>>
    /\ UNCHANGED <<metrics, assessment, csvLines, parsed, alertCalls, alertLog>>
    /\ UNCHANGED cacheVars
    /\ UNCHANGED serviceVars

\* WeatherDataService.calculateThreatLevel(alerts, reports) on the
\* Supabase-backed service
AssessSupabase ==
    /\ levelSupabase = "unset"
    /\ levelSupabase' = sbCalculateThreatLevel(map(in_alerts, sbAlert), in_reports)
    /\ UNCHANGED <<in_alerts, in_reports, levelDirect, prev>>
    /\ UNCHANGED <<metrics, assessment, csvLines, parsed, alertCalls, alertLog>>
    /\ UNCHANGED cacheVars
    /\ UNCHANGED serviceVars

\* both services assess again with the same alerts and a new reports object
Reassess(r) ==
    /\ levelDirect # "unset"
    /\ levelSupabase # "unset"
    /\ r # in_reports
    /\ in_reports' = r
    /\ levelDirect' = calculateThreatLevel(map(in_alerts, nwsAlert), r)
    /\ levelSupabase' = sbCalculateThreatLevel(map(in_alerts, sbAlert), r)
    /\ prev' = [reassessed |-> TRUE, reports |-> in_reports,
                levelDirect |-> levelDirect, levelSupabase |-> levelSupabase]
    /\ UNCHANGED in_alerts
    /\ UNCHANGED <<metrics, assessment, csvLines, parsed, alertCalls, alertLog>>
    /\ UNCHANGED cacheVars
    /\ UNCHANGED serviceVars

ThreatNext ==
    \/ AssessDirect
    \/ AssessSupabase
    \/ \E r \in ThreatReports : Reassess(r)

SpecThreat == ThreatInit /\ [][ThreatNext]_vars

----------------------------------------------------------------------------
(* Facts read off the feed's event names *)

FeedHas(feed, kw) ==
    \E i \in 1..Len(feed) :
        "event" \in DOMAIN feed[i] /\ includes(toLowerCase(chars(feed[i].event)), kw)

EventAt(feed, i, e) ==
    i \in DOMAIN feed /\ "event" \in DOMAIN feed[i] /\ feed[i].event = e

TornadoReportCount(r) == IF "tornado" \in DOMAIN r THEN Len(r.tornado) ELSE 0

Rank ==
    [l \in Levels |->
        CASE l = "NONE" -> 0 [] l = "LOW" -> 1 [] l = "MODERATE" -> 2
          [] l = "ELEVATED" -> 3 [] l = "HIGH" -> 4 [] l = "EXTREME" -> 5]

\* C1: whenever some alert's event contains 'tornado warning' (any case),
\* both the direct-API and the Supabase-backed calculateThreatLevel return
\* EXTREME, whatever the other alerts and the reports are.
C1_WarningIsExtreme ==
    FeedHas(in_alerts, KwTornadoWarning) =>
        /\ levelDirect # "unset" => levelDirect = "EXTREME"
        /\ levelSupabase # "unset" => levelSupabase = "EXTREME"

C1_Witness ==
    /\ Len(in_alerts) = 2
    /\ EventAt(in_alerts, 1, "TORNADO WATCH")
    /\ EventAt(in_alerts, 2, "Tornado Warning")
    /\ TornadoReportCount(in_reports) > 0
    /\ levelDirect = "EXTREME"
    /\ levelSupabase = "EXTREME"

\* the seven rules, first match wins
SevenRuleCascade(feed, r) ==
    CASE FeedHas(feed, KwTornadoWarning) -> "EXTREME"
      [] OTHER ->
    CASE FeedHas(feed, KwTornadoWatch) /\ TornadoReportCount(r) > 0 -> "HIGH"
      [] OTHER ->
    CASE FeedHas(feed, KwTornadoWatch) \/ TornadoReportCount(r) > 0 -> "ELEVATED"
      [] OTHER ->
    CASE FeedHas(feed, KwSevereTstormWarning) -> "ELEVATED"
      [] OTHER ->
    CASE FeedHas(feed, KwWatch) -> "MODERATE"
      [] OTHER ->
    CASE Len(feed) > 0 -> "LOW"
      [] OTHER -> "NONE"

\* C2: the direct-API calculateThreatLevel equals the seven-rule first-match
\* cascade for every alert list and reports object.
C2_DirectIsSevenRuleCascade ==
    levelDirect # "unset" => levelDirect = SevenRuleCascade(in_alerts, in_reports)

C2_Witness ==
    /\ levelDirect = "MODERATE"
    /\ Len(in_alerts) = 2
    /\ EventAt(in_alerts, 1, "Flood Advisory")
    /\ EventAt(in_alerts, 2, "Severe Thunderstorm Watch")

\* C3: with a tornado watch among the alerts, going from no tornado report
\* to at least one never lowers the level of either service: it moves from
\* ELEVATED to HIGH, or stays EXTREME when a tornado warning is present too.
C3_ReportsNeverLower ==
    [][ ( /\ FeedHas(in_alerts, KwTornadoWatch)
          /\ levelDirect # "unset" /\ levelSupabase # "unset"
          /\ TornadoReportCount(in_reports) = 0
          /\ TornadoReportCount(in_reports') > 0 )
        => /\ Rank[levelDirect'] >= Rank[levelDirect]
           /\ Rank[levelSupabase'] >= Rank[levelSupabase]
           /\ IF FeedHas(in_alerts, KwTornadoWarning)
              THEN /\ levelDirect = "EXTREME" /\ levelDirect' = "EXTREME"
                   /\ levelSupabase = "EXTREME" /\ levelSupabase' = "EXTREME"
              ELSE /\ levelDirect = "ELEVATED" /\ levelDirect' = "HIGH"
                   /\ levelSupabase = "ELEVATED" /\ levelSupabase' = "HIGH" ]_vars

C3_Witness ==
    /\ FeedHas(in_alerts, KwTornadoWatch)
    /\ ~FeedHas(in_alerts, KwTornadoWarning)
    /\ prev.reassessed
    /\ TornadoReportCount(prev.reports) = 0
    /\ prev.levelDirect = "ELEVATED"
    /\ prev.levelSupabase = "ELEVATED"
    /\ TornadoReportCount(in_reports) > 0
    /\ levelDirect = "HIGH"
    /\ levelSupabase = "HIGH"

----------------------------------------------------------------------------
(* SpecCache: one SimpleCache under set, get, clear and a running clock *)

CacheKeys == {"k1", "k2"}
CacheValues == {"v1", "v2"}

CacheInit ==
    /\ CacheIdle
    /\ ThreatIdle
    /\ ServiceIdle

\* cache.set(key, data, durationMs)
CacheSet(key, data, durationMs) ==
    /\ cache' = set(cache, key, data, durationMs, now)
    /\ lastSet' = [k \in DOMAIN lastSet \cup {key} |->
                     IF k = key
                     THEN [data |-> data, at |-> now, ttl |-> durationMs,
                           overwrote |-> key \in DOMAIN cache]
                     ELSE lastSet[k]]
    /\ getResult' = [key |-> "none"]
    /\ UNCHANGED now
    /\ UNCHANGED threatVars
    /\ UNCHANGED serviceVars

\* cache.get(key)
CacheGet(key) ==
    LET r == get(cache, key, now)
    IN  /\ getResult' = [key |-> key, found |-> r.found,
                         data |-> IF r.found THEN r.data ELSE "null",
                         had |-> key \in DOMAIN cache]
        /\ cache' = r.cache
        /\ UNCHANGED <<now, lastSet>>
        /\ UNCHANGED threatVars
    /\ UNCHANGED serviceVars

\* cache.clear()
CacheClear ==
    /\ cache' = clear(cache)
    /\ lastSet' = EmptyMap
    /\ getResult' = [key |-> "none"]
    /\ UNCHANGED now
    /\ UNCHANGED threatVars
    /\ UNCHANGED serviceVars

\* a millisecond passes
CacheTick ==
    /\ now < MaxClock
    /\ now' = now + 1
    /\ getResult' = [key |-> "none"]
    /\ UNCHANGED <<cache, lastSet>>
    /\ UNCHANGED threatVars
    /\ UNCHANGED serviceVars

CacheNext ==
    \/ \E k \in CacheKeys, v \in CacheValues, d \in 0..MaxTtl : CacheSet(k, v, d)
    \/ \E k \in CacheKeys : CacheGet(k)
    \/ CacheClear
    \/ CacheTick

SpecCache == CacheInit /\ [][CacheNext]_vars

\* the latest get was of a key set since the last clear
GotSetKey == getResult.key # "none" /\ getResult.key \in DOMAIN lastSet

\* C8: a get of k up to ttl-1 ms after the latest set(k, v, ttl) returns v,
\* a get ttl+1 ms or more after it returns absent, and no get returns a
\* value at a time later than its expiry time (the time of the set plus ttl).
C8_TtlWindow ==
    /\ GotSetKey =>
        LET s == lastSet[getResult.key]
        IN  /\ now <= s.at + s.ttl - 1 => getResult.found /\ getResult.data = s.data
            /\ now >= s.at + s.ttl + 1 => ~getResult.found
    /\ (getResult.key # "none" /\ getResult.found) =>
            /\ getResult.key \in DOMAIN lastSet
            /\ now <= lastSet[getResult.key].at + lastSet[getResult.key].ttl

C8_Witness ==
    /\ GotSetKey
    /\ lastSet[getResult.key].overwrote
    /\ lastSet[getResult.key].ttl = 2
    /\ now = lastSet[getResult.key].at + 1
    /\ getResult.found
    /\ getResult.data = "v2"

\* C9 as stated: get returns the value only strictly before the expiry
\* time; at the expiry time and later it returns absent and the entry is gone.
C9_StrictlyBeforeExpiry ==
    GotSetKey =>
        LET s == lastSet[getResult.key]
        IN  /\ getResult.found => now < s.at + s.ttl
            /\ now >= s.at + s.ttl =>
                    ~getResult.found /\ getResult.key \notin DOMAIN cache

\* C9 amended: get returns the value at every time up to and including the
\* expiry time (now <= expiry); at every later time it returns absent and
\* the stale entry is removed from the cache.
C9_UpToExpiry ==
    GotSetKey =>
        LET s == lastSet[getResult.key]
        IN  /\ now <= s.at + s.ttl =>
                    /\ getResult.found /\ getResult.data = s.data
                    /\ getResult.key \in DOMAIN cache
            /\ now > s.at + s.ttl =>
                    ~getResult.found /\ getResult.key \notin DOMAIN cache

C9_Witness ==
    /\ GotSetKey
    /\ lastSet[getResult.key].ttl > 0
    /\ now = lastSet[getResult.key].at + lastSet[getResult.key].ttl
    /\ getResult.found
    /\ getResult.data = lastSet[getResult.key].data

----------------------------------------------------------------------------
(* The providers *)

\* a numeric coordinate and a coordinate that is no number (a string)
Num(v) == [num |-> TRUE, v |-> v]
NotNum == [num |-> FALSE, v |-> 0]

\* rows of today's files: one 69 miles north of the query point, one 691
\* miles north of it
NearRow == [lat |-> Num(36468), lon |-> Num(-97516)]
FarRow == [lat |-> Num(45468), lon |-> Num(-97516)]

Props(id, severity, event) ==
    [id |-> id, severity |-> severity, onset |-> 0, event |-> event]

Feature(id, y, total, current) ==
    [attributes |-> [OBJECTID |-> id, TOTAL_POPULATION |-> total,
                     EVACUEES_CURRENT |-> current],
     geometry |-> [x |-> -97516, y |-> y]]

\* what the providers answer when they answer well: the active alerts of
\* the query point, today's three files, the open shelters near the point
\* and in the state, the shelters table of the database
World(feed, tornadoRows) ==
    [feed |-> feed,
     rows |-> [t \in {"tornado", "wind", "hail"} |->
                 IF t = "tornado" THEN tornadoRows ELSE <<NearRow>>],
     nearbyFeatures |-> << Feature(1, 35868, 100, 40), Feature(2, 35568, 0, 0) >>,
     stateFeatures |-> << Feature(2, 35568, 0, 0), Feature(1, 35868, 100, 40) >>,
     dbShelters |-> << [id |-> 7, latitude |-> 35568, longitude |-> -97516] >>]

Worlds ==
    << World(<<>>, <<FarRow>>),
       World(<< Props(1, "Severe", "TORNADO WATCH") >>, <<FarRow, NearRow>>),
       [World(<< Props(1, "Severe", "TORNADO WATCH") >>, <<FarRow>>)
           EXCEPT !.nearbyFeatures = Append(@, Feature(3, 36468, 50, 10))],
       [World(<< Props(2, "Minor", "Flood Advisory"),
                 Props(3, "Extreme", "Tornado Warning") >>, <<>>)
           EXCEPT !.nearbyFeatures = << Feature(4, 35470, 20, 5),
                                        Feature(5, 35469, 20, 5) >> \o @] >>

\* how a provider request can end: a good response, or fetch rejecting,
\* the abort timer firing, a status that is not 2xx, a body that does not parse
Outcomes == {"ok", "network", "timeout", "status", "malformed"}

----------------------------------------------------------------------------
(* Promises *)

Pending == [state |-> "pending"]
Fulfilled(v) == [state |-> "fulfilled", value |-> v]
Rejected == [state |-> "rejected"]

\* a handler that lets the rejection through
catchRethrows(promise, fallback) == promise

\* promise.catch(() => fallback)
catch(promise, fallback) ==
    IF promise.state = "rejected" THEN Fulfilled(fallback) ELSE promise

\* Promise.all: rejected as soon as one element is, fulfilled once all are
promiseAll(elements) ==
    IF \E e \in DOMAIN elements : elements[e].state = "rejected" THEN "rejected"
    ELSE IF \A e \in DOMAIN elements : elements[e].state = "fulfilled"
         THEN "fulfilled"
         ELSE "pending"

----------------------------------------------------------------------------
(* The direct-API services *)

Sources == {"alerts", "tornado", "wind", "hail", "nearbyShelters", "stateShelters"}

\* validTypes of getTodaysReports
validTypes == {"tornado", "wind", "hail"}

\* cache keys: the template string is kept as its name and the two numbers
\* it embeds (0 where the template embeds none)
alertsKey(lat, lon) ==
    [name |-> "nws_alerts", p |-> toFixed2(lat.v), q |-> toFixed2(lon.v)]
reportsKey(reportType) ==
    [name |-> "spc_today_" \o reportType, p |-> 0, q |-> 0]
sheltersKey(stateCode) ==
    [name |-> "fema_shelters_" \o stateCode, p |-> 0, q |-> 0]

\* severityOrder[a.severity] || 4
severityRank(a) ==
    LET order == [x \in {"Extreme", "Severe", "Moderate", "Minor", "Unknown"} |->
                    CASE x = "Extreme" -> 0 [] x = "Severe" -> 1
                      [] x = "Moderate" -> 2 [] x = "Minor" -> 3
                      [] x = "Unknown" -> 4]
        looked == IF a.severity \in DOMAIN order THEN order[a.severity] ELSE 0
    IN  IF looked = 0 THEN 4 ELSE looked

\* NWSAlertsService.getActiveAlerts: the alerts made of a parsed response
activeAlerts(features) == sort(map(features, nwsAlert), severityRank)

\* SPCStormReportsService.parseStormReportsCSV on split rows: a coordinate
\* is parseFloat(field) || null, and 0 stands for that null
parseStormReportsCSV(rows, reportType) ==
    LET coord(f) == IF f.num THEN f.v ELSE 0
        report(row) == [latitude |-> coord(row.lat),
                        longitude |-> coord(row.lon),
                        reportType |-> reportType]
    IN  filter(map(rows, report),
               LAMBDA r : r.latitude # 0 /\ r.longitude # 0)

\* report.distanceMiles = ..., the assignment inside filterByDistance
withDistance(report, lat, lon) ==
    IF report.latitude = 0 \/ report.longitude = 0 THEN report
    ELSE [f \in DOMAIN report \cup {"distanceMiles"} |->
            IF f = "distanceMiles"
            THEN roundTenth(calculateDistanceMiles(lat, lon, report.latitude,
                                                   report.longitude))
            ELSE report[f]]

\* filterByDistance of getNearbyReports, on reports already given their
\* distanceMiles
filterByDistance(reports, lat, lon, radiusMiles) ==
    sort(filter(reports, LAMBDA r :
                  /\ r.latitude # 0 /\ r.longitude # 0
                  /\ calculateDistanceMiles(lat, lon, r.latitude, r.longitude) # NaN
                  /\ calculateDistanceMiles(lat, lon, r.latitude, r.longitude)
                        <= radiusMiles * 1000),
         LAMBDA r : r.distanceMiles)

\* FEMASheltersService.getNearbyShelters: the shelters made of a parsed response
nearbyShelters(features, lat, lon) ==
    sort(map(features, LAMBDA f :
            [id |-> f.attributes.OBJECTID,
             latitude |-> f.geometry.y,
             longitude |-> f.geometry.x,
             distanceMiles |->
                roundTenth(calculateDistanceMiles(lat, lon, f.geometry.y,
                                                  f.geometry.x))]),
         LAMBDA sh : sh.distanceMiles)

\* FEMASheltersService.getOpenShelters: the shelters made of a parsed
\* response; availableCapacity 0 stands for null
openShelters(features) ==
    sort(map(features, LAMBDA f :
            [id |-> f.attributes.OBJECTID,
             latitude |-> f.geometry.y,
             longitude |-> f.geometry.x,
             availableCapacity |->
                IF f.attributes.TOTAL_POPULATION # 0
                   /\ f.attributes.EVACUEES_CURRENT # 0
                THEN f.attributes.TOTAL_POPULATION - f.attributes.EVACUEES_CURRENT
                ELSE 0]),
         LAMBDA sh : 0 - sh.availableCapacity)

\* the promise a service method returned, by the state of its source
sourcePromise(cl, src) ==
    CASE cl.st[src] \in {"hit", "ok"} -> Fulfilled(cl.data[src])
      [] cl.st[src] \in {"failed", "threw"} -> Rejected
      [] OTHER -> Pending

----------------------------------------------------------------------------
(* WeatherDataService.fetchAllData of the direct-API service *)

NoReports == [t \in validTypes |-> <<>>]

\* getAllTodaysReports: Promise.all of the three files, each with
\* .catch(() => [])
allTodaysReports(cl) ==
    [t \in validTypes |-> catch(sourcePromise(cl, t), <<>>)]

\* the array a report type contributes once the three files have settled
settledReports(cl, t) == allTodaysReports(cl)[t].value

\* getNearbyReports after its await: {tornado, wind, hail} filtered
nearbyReports(cl) ==
    [t \in validTypes |->
        filterByDistance(map(settledReports(cl, t),
                             LAMBDA r : withDistance(r, cl.lat, cl.lon)),
                         cl.lat, cl.lon, cl.options.reportRadiusMiles)]

\* the promise getNearbyReports returned
nearbyReportsPromise(cl) ==
    CASE promiseAll(allTodaysReports(cl)) = "fulfilled" -> Fulfilled(nearbyReports(cl))
      [] promiseAll(allTodaysReports(cl)) = "rejected" -> Rejected
      [] OTHER -> Pending

\* filterByDistance assigns report.distanceMiles on the very arrays the
\* cache holds: the entries of files that were fetched or hit are rewritten
markCached(c, cl) ==
    [k \in DOMAIN c |->
        IF \E t \in validTypes :
              k = reportsKey(t) /\ cl.st[t] \in {"hit", "ok"}
        THEN [c[k] EXCEPT !.data = map(c[k].data,
                                       LAMBDA r : withDistance(r, cl.lat, cl.lon))]
        ELSE c[k]]

\* the five elements without their .catch handlers
elementsWithoutCatch(cl) ==
    << sourcePromise(cl, "alerts"),
       Fulfilled(<<>>),
       nearbyReportsPromise(cl),
       sourcePromise(cl, "nearbyShelters"),
       sourcePromise(cl, "stateShelters") >>

\* the five elements handed to Promise.all, each with its .catch fallback;
\* includeStateAlerts is left at its default, so the second is Promise.resolve([])
elements(cl) ==
    << catch(sourcePromise(cl, "alerts"), <<>>),
       Fulfilled(<<>>),
       catch(nearbyReportsPromise(cl), NoReports),
       catch(sourcePromise(cl, "nearbyShelters"), <<>>),
       catch(sourcePromise(cl, "stateShelters"), <<>>) >>

\* the result object built after the await
fetchAllDataResult(cl, t) ==
    LET el == elements(cl)
        alerts == el[1].value
        stateAlerts == el[2].value
        reports == el[3].value
        nearby == el[4].value
        state == el[5].value
        tornadoAlerts == filter(alerts, LAMBDA a : a.isTornadoWarning)
        severeThunderstormAlerts == filter(alerts, LAMBDA a : a.isSevereThunderstorm)
    IN  [location |-> [latitude |-> cl.lat, longitude |-> cl.lon],
         fetchDurationMs |-> t - cl.startTime,
         threatLevel |-> calculateThreatLevel(alerts, reports),
         hasTornadoWarning |-> Len(tornadoAlerts) > 0,
         hasSevereThunderstormWarning |-> Len(severeThunderstormAlerts) > 0,
         alerts |-> [all |-> alerts, tornado |-> tornadoAlerts,
                     severeThunderstorm |-> severeThunderstormAlerts,
                     state |-> stateAlerts, count |-> Len(alerts)],
         stormReports |-> [nearby |-> reports,
                           tornadoCount |-> Len(reports["tornado"]),
                           windCount |-> Len(reports["wind"]),
                           hailCount |-> Len(reports["hail"]),
                           totalCount |-> Len(reports["tornado"]) + Len(reports["wind"])
                                            + Len(reports["hail"])],
         shelters |-> [nearby |-> nearby, state |-> state,
                       nearbyCount |-> Len(nearby), stateCount |-> Len(state)],
         summary |-> [activeAlerts |-> Len(alerts),
                      tornadoWarnings |-> Len(tornadoAlerts),
                      nearbyTornadoReports |-> Len(reports["tornado"]),
                      openSheltersNearby |-> Len(nearby),
                      closestShelter |-> firstOrNull(nearby),
                      mostUrgentAlert |-> firstOrNull(alerts)]]

\* a body that does not parse fails response.json(); response.text() of
\* the CSV files takes any body, and rows without coordinates are dropped
succeeds(src, outcome) ==
    outcome = "ok" \/ (outcome = "malformed" /\ src \in validTypes)

\* what is known of a call once it has returned
returned(cl, outcome, result, t) ==
    [impl |-> cl.impl, lat |-> cl.lat, lon |-> cl.lon, options |-> cl.options,
     startTime |-> cl.startTime, endTime |-> t,
     st |-> cl.st, fetched |-> cl.data, reqs |-> cl.reqs,
     attempts |-> cl.attempts,
     malformed |-> cl.malformed,
     cacheReads |-> cl.cacheReads,
     cacheWrites |-> cl.cacheWrites,
     outcome |-> outcome, result |-> result]

NoCall == [impl |-> "none"]

\* the fetchAllData calls among the entries of done
calls == {i \in DOMAIN done : done[i].impl # "clearCache"}

\* methods awaited one after the other: only the first has issued its request
awaitedInTurn(src, threw, found) ==
    IF threw THEN "threw"
    ELSE IF found THEN "hit"
    ELSE IF src = "alerts" THEN "pending" ELSE "waiting"

\* where a service method stands when it first yields: it threw, it
\* returned the cached value, or it has issued its request and awaits it
firstAwait(src, threw, found) ==
    IF threw THEN "threw"
    ELSE IF found THEN "hit" ELSE "pending"

\* a call of fetchAllData: destructures the options, then runs the five
\* service methods up to their first await, in argument order
FetchAllData(lat, lon, options) ==
    /\ app.impl = "direct"
    /\ call.impl = "none"
    /\ Cardinality(calls) < app.maxCalls
    /\ LET valid == lat.num /\ lon.num
           rA == IF valid THEN get(cache, alertsKey(lat, lon), now)
                 ELSE [found |-> FALSE, cache |-> cache]
           rT == get(rA.cache, reportsKey("tornado"), now)
           rW == get(rT.cache, reportsKey("wind"), now)
           rH == get(rW.cache, reportsKey("hail"), now)
           rS == get(rH.cache, sheltersKey(options.stateCode), now)
           r == [s \in Sources |->
                   CASE s = "alerts" -> rA [] s = "tornado" -> rT
                     [] s = "wind" -> rW [] s = "hail" -> rH
                     [] s = "stateShelters" -> rS
                     [] OTHER -> [found |-> FALSE, cache |-> cache]]
           st == [s \in Sources |->
                   firstAwait(s, s = "alerts" /\ ~valid, r[s].found)]
       IN  /\ cache' = rS.cache
           /\ call' = [impl |-> "direct", lat |-> lat, lon |-> lon,
                       options |-> options, startTime |-> now,
                       st |-> st,
                       data |-> [s \in Sources |->
                                   IF r[s].found THEN r[s].data ELSE <<>>],
                       reqs |-> {s \in Sources : st[s] = "pending"},
                       attempts |-> [s \in Sources |->
                                       IF st[s] = "pending" THEN 1 ELSE 0],
                       malformed |-> {},
                       cacheReads |-> {s \in Sources \ {"nearbyShelters"} :
                                         st[s] # "threw"},
                       cacheWrites |-> {}]
    /\ UNCHANGED <<now, world, app, done, db, getResult, lastSet>>
    /\ UNCHANGED threatVars

\* the cache key and duration a source's method uses; getNearbyShelters
\* uses none
hasCacheKey(src) == src # "nearbyShelters"

cacheKeyOf(cl, src) ==
    CASE src = "alerts" -> alertsKey(cl.lat, cl.lon)
      [] src \in validTypes -> reportsKey(src)
      [] src = "stateShelters" -> sheltersKey(cl.options.stateCode)

\* a service that gives every entry the alerts duration
cacheDurationOfAlerts(src) == ALERTS

cacheDurationOf(src) ==
    CASE src = "alerts" -> ALERTS
      [] src \in validTypes -> STORM_REPORTS
      [] src = "stateShelters" -> SHELTERS

\* what a method makes of a good response
extracted(cl, src, outcome) ==
    LET w == Worlds[world]
    IN  CASE src = "alerts" -> activeAlerts(w.feed)
          [] src \in validTypes ->
                parseStormReportsCSV(IF outcome = "ok" THEN w.rows[src] ELSE <<>>, src)
          [] src = "nearbyShelters" -> nearbyShelters(w.nearbyFeatures, cl.lat, cl.lon)
          [] src = "stateShelters" -> openShelters(w.stateFeatures)

\* a method that asks its provider a second time when the first request fails
retriedOnce(good, attempts) ==
    IF good THEN "ok"
    ELSE IF attempts < 2 THEN "pending" ELSE "failed"

\* where a method stands after its request has ended: it returns what it
\* extracted, or its catch block logs the error and rethrows (or returns the
\* empty list); there is no second request
afterResponse(good, attempts) ==
    IF good THEN "ok" ELSE "failed"

\* one provider request ends: the method's continuation runs, then
\* getNearbyReports' once the three files have settled, then fetchAllData's
\* once all five elements have
Respond(src, outcome) ==
    /\ call.impl = "direct"
    /\ call.st[src] \in {"pending", "reading"}
    /\ LET good == succeeds(src, outcome)
           value == IF good THEN extracted(call, src, outcome) ELSE <<>>
           status == afterResponse(good, call.attempts[src])
           cl == [call EXCEPT !.st[src] = status,
                              !.attempts[src] = IF status = "pending"
                                                THEN @ + 1 ELSE @,
                              !.data[src] = value,
                              !.malformed = IF outcome = "malformed"
                                            THEN @ \cup {src} ELSE @,
                              !.cacheWrites = IF good /\ hasCacheKey(src)
                                              THEN @ \cup {src} ELSE @]
           c1 == IF good /\ hasCacheKey(src)
                 THEN set(cache, cacheKeyOf(call, src), value,
                          cacheDurationOf(src), now)
                 ELSE cache
           reportsSettle == /\ src \in validTypes
                            /\ promiseAll(allTodaysReports(cl)) = "fulfilled"
           c2 == IF reportsSettle THEN markCached(c1, cl) ELSE c1
           settled == promiseAll(elements(cl))
       IN  /\ cache' = c2
           /\ IF settled = "pending"
              THEN /\ call' = cl
                   /\ done' = done
              ELSE /\ call' = NoCall
                   /\ done' = Append(done,
                        IF settled = "fulfilled"
                        THEN returned(cl, "resolved", fetchAllDataResult(cl, now), now)
                        ELSE returned(cl, "rejected", <<>>, now))
    /\ UNCHANGED <<now, world, app, db, getResult, lastSet>>
    /\ UNCHANGED threatVars

\* WeatherDataService.clearCache, which the application calls between its
\* fetchAllData calls
ClearCache ==
    /\ app.impl = "direct"
    /\ call.impl = "none"
    /\ cache # EmptyMap
    /\ cache' = clear(cache)
    /\ done' = Append(done, [impl |-> "clearCache", at |-> now])
    /\ UNCHANGED <<now, world, app, call, db, getResult, lastSet>>
    /\ UNCHANGED threatVars

\* time passes
Tick ==
    /\ app.impl # "none"
    /\ now < MaxTicks * TickMs
    /\ now' = now + TickMs
    /\ UNCHANGED <<cache, world, app, call, done, db, getResult, lastSet>>
    /\ UNCHANGED threatVars

----------------------------------------------------------------------------
(* WeatherDataService.fetchAllData of the Supabase-backed service *)

SbSources == {"alerts", "tornado", "wind", "hail", "dbShelters", "femaOpen"}

\* SPCReportsService.parseStormReportsCSV on split rows
sbParseStormReportsCSV(rows, reportType) ==
    LET coord(f) == IF f.num THEN f.v ELSE 0
        report(row) == [latitude |-> coord(row.lat),
                        longitude |-> coord(row.lon),
                        report_type |-> reportType]
    IN  filter(map(rows, report),
               LAMBDA r : r.latitude # 0 /\ r.longitude # 0)

\* FEMASheltersService.getOpenShelters: the shelters made of a parsed
\* response, in the order of the response
sbOpenShelters(features) ==
    map(features, LAMBDA f :
          [fema_id |-> f.attributes.OBJECTID,
           latitude |-> f.geometry.y,
           longitude |-> f.geometry.x])

\* logAlertsToDatabase: the significant alerts, upserted on
\* (nws_alert_id, onset_time) with ignoreDuplicates
logAlertsToDatabase(table, alerts) ==
    LET significantAlerts ==
            filter(alerts, LAMBDA a :
                     \/ a.is_tornado_related
                     \/ a.is_severe_thunderstorm
                     \/ a.severity = "Extreme"
                     \/ a.severity = "Severe")
    IN  table \cup { <<significantAlerts[i].nws_alert_id,
                       significantAlerts[i].onset_time>> :
                     i \in 1..Len(significantAlerts) }

\* logReportsToDatabase: a plain insert
logReportsToDatabase(table, reports) == table \o reports

\* the {data, error} a service method resolved with; none of them rejects
sbPromise(cl, src) ==
    IF cl.st[src] = "pending" THEN Pending
    ELSE Fulfilled([data |-> cl.data[src], error |-> cl.st[src] # "ok"])

\* SPCReportsService.getAllTodaysReports
sbAllTodaysReportsPromise(cl) ==
    LET files == [t \in validTypes |->
                    catch(sbPromise(cl, t), [data |-> <<>>, error |-> TRUE])]
    IN  CASE promiseAll(files) = "fulfilled" ->
                Fulfilled([t \in validTypes |-> files[t].value.data])
          [] promiseAll(files) = "rejected" -> Rejected
          [] OTHER -> Pending

\* the four elements handed to Promise.all
sbElements(cl) ==
    << sbPromise(cl, "alerts"),
       sbAllTodaysReportsPromise(cl),
       sbPromise(cl, "dbShelters"),
       sbPromise(cl, "femaOpen") >>

\* the result object built after the await
sbFetchAllDataResult(cl, t) ==
    LET el == sbElements(cl)
        alerts == el[1].value.data
        stormReports == el[2].value
        dbShelters == el[3].value
        femaShelters == el[4].value
        tornadoAlerts == filter(alerts, LAMBDA a : a.is_tornado_related)
    IN  [location |-> [latitude |-> cl.lat, longitude |-> cl.lon],
         fetchDurationMs |-> t - cl.startTime,
         threatLevel |-> sbCalculateThreatLevel(alerts, stormReports),
         hasTornadoWarning |-> Len(tornadoAlerts) > 0,
         alerts |-> [all |-> alerts, tornado |-> tornadoAlerts,
                     count |-> Len(alerts)],
         stormReports |-> [tornado |-> stormReports["tornado"],
                           wind |-> stormReports["wind"],
                           hail |-> stormReports["hail"],
                           tornadoCount |-> Len(stormReports["tornado"])],
         shelters |-> [database |-> dbShelters.data,
                       femaOpen |-> femaShelters.data,
                       databaseCount |-> Len(dbShelters.data),
                       femaCount |-> Len(femaShelters.data)],
         summary |-> [activeAlerts |-> Len(alerts),
                      tornadoWarnings |-> Len(tornadoAlerts),
                      tornadoReportsToday |-> Len(stormReports["tornado"]),
                      sheltersInDatabase |-> Len(dbShelters.data),
                      femaOpenShelters |-> Len(femaShelters.data)]]

\* a call of fetchAllData: the four service methods run up to their first
\* await; ShelterService.getNearbyShelters returns at once without a client
SbFetchAllData(lat, lon, options) ==
    /\ app.impl = "supabase"
    /\ call.impl = "none"
    /\ Cardinality(calls) < app.maxCalls
    /\ LET st == [s \in SbSources |->
                    IF s = "dbShelters" /\ ~app.configured
                    THEN "unconfigured" ELSE "pending"]
       IN  call' = [impl |-> "supabase", lat |-> lat, lon |-> lon,
                    options |-> options, startTime |-> now,
                    st |-> st,
                    data |-> [s \in SbSources |-> <<>>],
                    reqs |-> {s \in SbSources : st[s] = "pending"},
                    attempts |-> [s \in SbSources |->
                                    IF st[s] = "pending" THEN 1 ELSE 0],
                    malformed |-> {},
                    cacheReads |-> {},
                    cacheWrites |-> {}]
    /\ UNCHANGED <<cache, now, world, app, done, db, getResult, lastSet>>
    /\ UNCHANGED threatVars

\* what a method makes of a good response
sbExtracted(src, outcome) ==
    LET w == Worlds[world]
    IN  CASE src = "alerts" -> map(w.feed, sbAlert)
          [] src \in validTypes ->
                sbParseStormReportsCSV(IF outcome = "ok" THEN w.rows[src] ELSE <<>>, src)
          [] src = "dbShelters" -> w.dbShelters
          [] src = "femaOpen" -> sbOpenShelters(w.stateFeatures)

\* the rows a method's logging writes; getAllTodaysReports calls
\* getTodaysReports without the flag, which then defaults to true
sbLogged(cl, src, value, dbOutcome) ==
    IF ~app.configured \/ dbOutcome # "ok" \/ Len(value) = 0 THEN db
    ELSE IF src = "alerts" /\ cl.options.logToDatabase
    THEN [db EXCEPT !.weather_alerts_history = logAlertsToDatabase(@, value)]
    ELSE IF src \in validTypes
    THEN [db EXCEPT !.storm_reports_history = logReportsToDatabase(@, value)]
    ELSE db

\* one provider request ends: the method's continuation runs, its awaited
\* database write included (nothing reads the tables meanwhile), then
\* getAllTodaysReports' and fetchAllData's once their elements have settled
SbRespond(src, outcome, dbOutcome) ==
    /\ call.impl = "supabase"
    /\ call.st[src] = "pending"
    /\ LET good == succeeds(src, outcome)
           value == IF good THEN sbExtracted(src, outcome) ELSE <<>>
           writes == /\ good /\ app.configured /\ Len(value) > 0
                     /\ \/ src = "alerts" /\ call.options.logToDatabase
                        \/ src \in validTypes
           cl == [call EXCEPT !.st[src] = IF good THEN "ok" ELSE "failed",
                              !.data[src] = value]
           settled == promiseAll(sbElements(cl))
       IN  /\ writes \/ dbOutcome = "ok"
           /\ db' = sbLogged(call, src, value, dbOutcome)
           /\ IF settled = "pending"
              THEN /\ call' = cl
                   /\ done' = done
              ELSE /\ call' = NoCall
                   /\ done' = Append(done,
                        IF settled = "fulfilled"
                        THEN returned(cl, "resolved", sbFetchAllDataResult(cl, now), now)
                        ELSE returned(cl, "rejected", <<>>, now))
    /\ UNCHANGED <<cache, now, world, app, getResult, lastSet>>
    /\ UNCHANGED threatVars

----------------------------------------------------------------------------
(* Spec: an application calling fetchAllData against the providers *)

Options(reportRadiusMiles) ==
    [stateCode |-> "OK", shelterRadiusMiles |-> 50,
     reportRadiusMiles |-> reportRadiusMiles, includeStateAlerts |-> FALSE]

SbOptions(logToDatabase) ==
    [stateCode |-> "OK", shelterRadiusMiles |-> 50, logToDatabase |-> logToDatabase]

\* Oklahoma City, in thousandths of a degree
OkcLat == Num(35468)
OkcLon == Num(-97516)

\* the arguments the application calls with: a point with the default
\* radius, a negative radius, a latitude that is no number
DirectInputs ==
    { [lat |-> OkcLat, lon |-> OkcLon, options |-> Options(100)],
      [lat |-> OkcLat, lon |-> OkcLon, options |-> Options(-1)],
      [lat |-> NotNum, lon |-> OkcLon, options |-> Options(100)] }

SbInputs ==
    { [lat |-> OkcLat, lon |-> OkcLon, options |-> SbOptions(b)] : b \in BOOLEAN }

\* the application makes one call, of either service
Apps ==
    { [impl |-> "direct", configured |-> FALSE,
       maxCalls |-> 1] }
    \cup { [impl |-> "supabase", configured |-> c,
            maxCalls |-> 1] :
           c \in BOOLEAN }

Init ==
    /\ world \in 1..Len(Worlds)
    /\ app \in Apps
    /\ call = NoCall
    /\ done = <<>>
    /\ db = [weather_alerts_history |-> {}, storm_reports_history |-> <<>>]
    /\ CacheIdle
    /\ ThreatIdle

Next ==
    \/ \E i \in DirectInputs : FetchAllData(i.lat, i.lon, i.options)
    \/ \E src \in Sources, outcome \in Outcomes : Respond(src, outcome)
    \/ \E i \in SbInputs : SbFetchAllData(i.lat, i.lon, i.options)
    \/ \E src \in SbSources, outcome \in Outcomes, dbOutcome \in {"ok", "error"} :
          SbRespond(src, outcome, dbOutcome)

Spec == Init /\ [][Next]_vars

----------------------------------------------------------------------------
(* SpecPolling: an application polling the direct-API service while time
   passes and the cache is cleared *)

PollingInit ==
    /\ world \in 1..Len(Worlds)
    /\ app = [impl |-> "direct", configured |-> FALSE,
              maxCalls |-> MaxCalls]
    /\ call = NoCall
    /\ done = <<>>
    /\ db = [weather_alerts_history |-> {}, storm_reports_history |-> <<>>]
    /\ CacheIdle
    /\ ThreatIdle

\* the providers answer every request well
PollingNext ==
    \/ \E i \in DirectInputs : FetchAllData(i.lat, i.lon, i.options)
    \/ \E src \in Sources : Respond(src, "ok")
    \/ ClearCache
    \/ Tick

SpecPolling == PollingInit /\ [][PollingNext]_vars

----------------------------------------------------------------------------
(* Properties of fetchAllData *)

\* numeric coordinates and no negative radius
ValidInput(e) ==
    /\ e.lat.num /\ e.lon.num
    /\ e.options.shelterRadiusMiles >= 0
    /\ "reportRadiusMiles" \in DOMAIN e.options => e.options.reportRadiusMiles >= 0

\* the sources of a call that did not deliver
FailedSources(e) == {s \in DOMAIN e.st : e.st[s] \notin {"ok", "hit"}}

\* every list of the result is empty
EmptyLists(e) ==
    IF e.impl = "direct"
    THEN /\ e.result.alerts.all = <<>>
         /\ e.result.alerts.state = <<>>
         /\ \A t \in validTypes : e.result.stormReports.nearby[t] = <<>>
         /\ e.result.shelters.nearby = <<>>
         /\ e.result.shelters.state = <<>>
    ELSE /\ e.result.alerts.all = <<>>
         /\ e.result.stormReports.tornado = <<>>
         /\ e.result.stormReports.wind = <<>>
         /\ e.result.stormReports.hail = <<>>
         /\ e.result.shelters.database = <<>>
         /\ e.result.shelters.femaOpen = <<>>

\* C4: every fetchAllData call with valid input resolves with a result,
\* whatever sources fail and however, in both services; when every source
\* fails the result's level is NONE and its alert, report and shelter lists
\* are empty.
C4_AlwaysResolves ==
    \A i \in calls :
        ValidInput(done[i]) =>
            /\ done[i].outcome = "resolved"
            /\ FailedSources(done[i]) = DOMAIN done[i].st =>
                    /\ done[i].result.threatLevel = "NONE"
                    /\ EmptyLists(done[i])

C4_Witness ==
    \E i \in calls :
        /\ done[i].impl = "direct"
        /\ ValidInput(done[i])
        /\ Len(Worlds[world].feed) > 0
        /\ \A s \in Sources : done[i].st[s] = "failed"
        /\ done[i].outcome = "resolved"
        /\ done[i].result.threatLevel = "NONE"

\* C5: when exactly one source of a call fails, the result's
\* partialFailures is the one-element list naming it; when all fail,
\* partialFailures names every source.
C5_PartialFailuresRecorded ==
    \A i \in calls :
        LET e == done[i]
            f == FailedSources(e)
        IN  (e.outcome = "resolved" /\ (Cardinality(f) = 1 \/ f = DOMAIN e.st)) =>
                /\ "partialFailures" \in DOMAIN e.result
                /\ Len(e.result.partialFailures) = Cardinality(f)
                /\ {e.result.partialFailures[k] :
                        k \in 1..Len(e.result.partialFailures)} = f

\* the report radius of a call, in miles; the Supabase-backed fetchAllData
\* takes none, and the direct service's default stands in for it
SbReportRadiusMiles == 100

ReportRadiusMiles(e) ==
    IF e.impl = "direct" THEN e.options.reportRadiusMiles ELSE SbReportRadiusMiles

\* the fetched tornado reports that lie within the report radius
TornadoesWithinRadius(e) ==
    filter(e.fetched["tornado"], LAMBDA r :
             /\ calculateDistanceMiles(e.lat, e.lon, r.latitude, r.longitude) # NaN
             /\ calculateDistanceMiles(e.lat, e.lon, r.latitude, r.longitude)
                    <= ReportRadiusMiles(e) * 1000)

\* C6: the level of a call is the level its alerts give together with the
\* tornado reports within the report radius alone: reports farther away
\* change nothing, in both services.
C6_OnlyReportsWithinRadius ==
    \A i \in calls :
        LET e == done[i]
            near == [tornado |-> TornadoesWithinRadius(e)]
        IN  (ValidInput(e) /\ e.outcome = "resolved") =>
                e.result.threatLevel =
                    IF e.impl = "direct"
                    THEN calculateThreatLevel(e.result.alerts.all, near)
                    ELSE sbCalculateThreatLevel(e.result.alerts.all, near)

\* C7: a call with a non-numeric coordinate or a negative radius is rejected
\* at once: it is never in flight, it rejects, it issues no provider request
\* and it neither reads nor writes the cache.
C7_InvalidInputRejected ==
    /\ call.impl # "none" => ValidInput(call)
    /\ \A i \in calls :
          ~ValidInput(done[i]) =>
              /\ done[i].outcome = "rejected"
              /\ done[i].reqs = {}
              /\ done[i].cacheReads = {}
              /\ done[i].cacheWrites = {}

\* the source data of a result of the direct-API service
SourceData(e) ==
    << e.result.alerts.all, e.result.stormReports.nearby,
       e.result.shelters.nearby, e.result.shelters.state >>

\* C10: after a call in which every source was fetched and succeeded, a
\* later call with the same location and options, started before any
\* source's TTL has elapsed and with no clearCache in between, issues no
\* provider request and returns the same source data.
C10_SecondCallFromCache ==
    \A i \in calls, j \in calls :
        ( /\ i < j
          /\ done[i].lat = done[j].lat /\ done[i].lon = done[j].lon
          /\ done[i].options = done[j].options
          /\ \A s \in Sources : done[i].st[s] = "ok"
          /\ done[j].startTime < done[i].startTime + ALERTS
          /\ done[j].startTime < done[i].startTime + SHELTERS
          /\ done[j].startTime < done[i].startTime + STORM_REPORTS
          /\ \A k \in i..j : done[k].impl # "clearCache" )
        => /\ done[j].reqs = {}
           /\ SourceData(done[j]) = SourceData(done[i])

\* a source whose method has settled: served from the cache, fetched, failed,
\* thrown before its request, or answered without a client
Settled == {"hit", "ok", "failed", "threw", "unconfigured"}

\* C11: a fetchAllData call returns only once every source it started has
\* settled: no returned call, resolved or rejected, of either service has a
\* source still pending, whatever failed before.
C11_ReturnsAfterAllSettled ==
    \A i \in calls :
        \A s \in DOMAIN done[i].st : done[i].st[s] \in Settled

C11_Witness ==
    /\ call.impl = "direct"
    /\ call.st["alerts"] = "failed"
    /\ \E s \in Sources : call.st[s] = "pending"
    /\ calls = {}

\* C12: in a call of the direct-API service, once the response of any
\* source has been consumed, every source that is neither served from the
\* cache nor thrown has had its request issued: all requests go out before
\* any response is awaited.
C12_RequestsBeforeResponses ==
    /\ ( /\ call.impl = "direct"
         /\ \E s \in Sources : call.st[s] \in {"ok", "failed"} )
       => \A s \in Sources : call.st[s] \in {"hit", "threw"} \/ s \in call.reqs
    /\ \A i \in calls :
          done[i].impl = "direct" =>
              done[i].reqs = {s \in Sources : done[i].st[s] \in {"ok", "failed"}}

C12_Witness ==
    /\ call.impl = "direct"
    /\ call.reqs = Sources
    /\ call.st["hail"] = "ok"
    /\ \A s \in Sources \ {"hail"} : call.st[s] = "pending"

\* the requests a call has made of each source's endpoint
AtMostOnce(e) ==
    \A s \in DOMAIN e.st :
        /\ e.attempts[s] <= 1
        /\ e.attempts[s] = (IF s \in e.reqs THEN 1 ELSE 0)

\* C13: within one fetchAllData call every provider endpoint is requested at
\* most once, whether the request succeeds or fails: a source that failed
\* has been asked exactly once, in the call in flight and in every returned
\* one.
C13_SingleAttemptPerSource ==
    /\ call.impl # "none" => AtMostOnce(call)
    /\ \A i \in calls : AtMostOnce(done[i])

C13_Witness ==
    \E i \in calls :
        /\ done[i].impl = "direct"
        /\ done[i].st["tornado"] = "failed"
        /\ done[i].attempts["tornado"] = 1
        /\ done[i].outcome = "resolved"

\* ---------------------------------------------------------------------
\* fetchWithTimeout, step by step.  A source is "pending" while fetch has
\* not resolved and the abort timer is armed, and "reading" once fetch has
\* resolved with the response headers: fetchWithTimeout has then cleared
\* the timer and returned, and the method awaits response.json() or
\* response.text().

\* fetch resolves: clearTimeout(timeoutId); return response
Headers(src) ==
    /\ call.impl = "direct"
    /\ call.st[src] = "pending"
    /\ call' = [call EXCEPT !.st[src] = "reading"]
    /\ UNCHANGED <<cache, now, world, app, done, db, getResult, lastSet>>
    /\ UNCHANGED threatVars

\* the body read ends: the body arrived whole, or the connection broke
BodyEnds(src, outcome) ==
    /\ call.impl = "direct"
    /\ call.st[src] = "reading"
    /\ Respond(src, outcome)

\* the timer set by fetchWithTimeout fires: controller.abort() rejects the
\* fetch it was armed for
TimerFires(src) ==
    /\ call.impl = "direct"
    /\ call.st[src] = "pending"
    /\ Respond(src, "timeout")

\* what the providers hold plays no part in whether a fetch ends
TimeoutInit ==
    /\ world = 1
    /\ app = [impl |-> "direct", maxCalls |-> 1]
    /\ call = NoCall
    /\ done = <<>>
    /\ db = [weather_alerts_history |-> {}, storm_reports_history |-> <<>>]
    /\ CacheIdle
    /\ ThreatIdle

TimeoutNext ==
    \/ FetchAllData(OkcLat, OkcLon, Options(100))
    \/ \E src \in Sources : Headers(src)
    \/ \E src \in Sources : \E outcome \in {"ok", "network"} : BodyEnds(src, outcome)
    \/ \E src \in Sources : TimerFires(src)

\* armed timers eventually fire (a source never returns to "pending", so
\* fairness of the timers together is fairness of each); nothing is assumed
\* of the providers
SpecTimeout ==
    /\ TimeoutInit
    /\ [][TimeoutNext]_vars
    /\ WF_vars(\E src \in Sources : TimerFires(src))

\* C14: every provider fetch is bounded by its timeout, so that a call of
\* fetchAllData that has started eventually returns even if a provider
\* never answers or never finishes sending its response body.
C14_EveryCallReturns ==
    (call.impl = "direct") ~> (call.impl = "none")

\* C15: a value stored in the cache is read-only until it expires: in every
\* step, an entry that stays in the cache with the expiry it had keeps the
\* data it had.
C15_CachedValuesReadOnly ==
    [][\A k \in (DOMAIN cache) \cap (DOMAIN cache') :
          cache'[k].expiry = cache[k].expiry => cache'[k].data = cache[k].data]_vars

\* the severity order the alerts are to be sorted in
SeverityOrder(a) ==
    CASE a.severity = "Extreme" -> 0
      [] a.severity = "Severe" -> 1
      [] a.severity = "Moderate" -> 2
      [] a.severity = "Minor" -> 3
      [] OTHER -> 4

\* C16: the alerts of a result are sorted by severity, Extreme before Severe
\* before Moderate before Minor before unknown or missing, so that alerts[0],
\* which is summary.mostUrgentAlert, has the highest severity present.
C16_AlertsSortedBySeverity ==
    \A i \in calls :
        (done[i].impl = "direct" /\ done[i].outcome = "resolved") =>
            LET all == done[i].result.alerts.all
                mostUrgentAlert == done[i].result.summary.mostUrgentAlert
            IN  /\ \A j, k \in DOMAIN all :
                      j < k => SeverityOrder(all[j]) <= SeverityOrder(all[k])
                /\ \A m \in DOMAIN mostUrgentAlert : \A k \in DOMAIN all :
                      SeverityOrder(mostUrgentAlert[m]) <= SeverityOrder(all[k])

\* the alerts of a result whose event type contains the keyword
AlertsWith(e, kw) ==
    LET field == IF e.impl = "direct" THEN "event" ELSE "event_type"
        all == e.result.alerts.all
    IN  \E k \in DOMAIN all : eventIncludes(all[k], field, kw)

\* C17: in a result of fetchAllData, hasTornadoWarning is true exactly when
\* some active alert's event type contains 'tornado warning', that is exactly
\* when threatLevel is EXTREME, and hasSevereThunderstormWarning exactly when
\* some alert's event type contains 'severe thunderstorm warning'.
C17_WarningFlagsMatchKeywords ==
    \A i \in calls :
        done[i].outcome = "resolved" =>
            /\ done[i].result.hasTornadoWarning = AlertsWith(done[i], KwTornadoWarning)
            /\ done[i].result.hasTornadoWarning = (done[i].result.threatLevel = "EXTREME")
            /\ done[i].impl = "direct" =>
                  done[i].result.hasSevereThunderstormWarning
                      = AlertsWith(done[i], KwSevereTstormWarning)

----------------------------------------------------------------------------
(* SpecForward: assessTornadoThreat of scripts/test-weather-apis.js applied
   to bounded Open-Meteo metrics.  A metric is Num(v), or NotNum when the
   field is undefined; dewpoints are in degrees Fahrenheit. *)

\* JavaScript's a || b on numbers: a, unless a is undefined or 0
orElse(a, b) == IF a.num /\ a.v # 0 THEN a ELSE b

\* a comparison with undefined is false
gte(x, n) == x.num /\ x.v >= n

lte(x, n) == x.num /\ x.v <= n

lt(x, n) == x.num /\ x.v < n

NoBand == [score |-> 0, factor |-> ""]

\* CAPE bands that add up: every band the value reaches is counted
capeBandStacked(maxCAPE) ==
    [score |-> (IF gte(maxCAPE, 4000) THEN 40 ELSE 0)
                 + (IF gte(maxCAPE, 2500) THEN 30 ELSE 0)
                 + (IF gte(maxCAPE, 1000) THEN 20 ELSE 0)
                 + (IF gte(maxCAPE, 300) THEN 10 ELSE 0),
     factor |-> IF gte(maxCAPE, 300) THEN "CAPE" ELSE ""]

\* CAPE Assessment
capeBand(maxCAPE) ==
    IF gte(maxCAPE, 4000) THEN [score |-> 40, factor |-> "EXTREME CAPE"]
    ELSE IF gte(maxCAPE, 2500) THEN [score |-> 30, factor |-> "HIGH CAPE"]
    ELSE IF gte(maxCAPE, 1000) THEN [score |-> 20, factor |-> "MODERATE CAPE"]
    ELSE IF gte(maxCAPE, 300) THEN [score |-> 10, factor |-> "LOW CAPE"]
    ELSE NoBand

\* Lifted Index Assessment
liftedIndexBand(minLiftedIndex) ==
    IF lte(minLiftedIndex, -6) THEN [score |-> 25, factor |-> "VERY UNSTABLE"]
    ELSE IF lte(minLiftedIndex, -3) THEN [score |-> 15, factor |-> "UNSTABLE"]
    ELSE IF lt(minLiftedIndex, 0) THEN [score |-> 5, factor |-> "MARGINAL INSTABILITY"]
    ELSE NoBand

\* Dewpoint Assessment: dewpointC = (maxDewpoint - 32) * 5/9, kept in ninths
\* of a degree Celsius
dewpointBand(maxDewpoint) ==
    LET dewpointC9 == IF maxDewpoint.num THEN Num((maxDewpoint.v - 32) * 5)
                      ELSE NotNum
    IN  IF gte(dewpointC9, 20 * 9) THEN [score |-> 15, factor |-> "HIGH MOISTURE"]
        ELSE IF gte(dewpointC9, 15 * 9) THEN [score |-> 10, factor |-> "GOOD MOISTURE"]
        ELSE NoBand

\* Wind Gust Assessment
gustBand(maxGust) ==
    IF gte(maxGust, 50) THEN [score |-> 15, factor |-> "STRONG GUSTS"]
    ELSE IF gte(maxGust, 30) THEN [score |-> 10, factor |-> "MODERATE GUSTS"]
    ELSE NoBand

\* CIN Assessment
cinBand(cin) ==
    IF lt(cin, 25) THEN [score |-> 10, factor |-> "WEAK CAP"]
    ELSE IF lt(cin, 100) THEN [score |-> 5, factor |-> "MODERATE CAP"]
    ELSE NoBand

\* High-risk days bonus
highRiskDaysBonus(highRiskDays) ==
    IF gte(highRiskDays, 3) THEN [score |-> 10, factor |-> "MULTIPLE HIGH-RISK DAYS"]
    ELSE NoBand

\* Determine threat level
levelOfScore(score) ==
    IF score >= 70 THEN "EXTREME"
    ELSE IF score >= 50 THEN "HIGH"
    ELSE IF score >= 30 THEN "MODERATE"
    ELSE IF score >= 15 THEN "LOW"
    ELSE "MINIMAL"

\* assessTornadoThreat(metrics)
assessTornadoThreat(m) ==
    LET peak == m.peakValues
        current == m.current
        maxCAPE == orElse(orElse(peak.maxCAPE_7day, peak.maxCAPE_24hr), Num(0))
        maxGust == orElse(peak.maxWindGust_16day, Num(0))
        cin == orElse(current.convective_inhibition, Num(0))
        highRiskDays == orElse(m.highRiskDays, Num(0))
        added == << capeBand(maxCAPE),
                    liftedIndexBand(peak.minLiftedIndex),
                    dewpointBand(peak.maxDewpoint),
                    gustBand(maxGust),
                    cinBand(cin),
                    highRiskDaysBonus(highRiskDays) >>
        score == added[1].score + added[2].score + added[3].score
                   + added[4].score + added[5].score + added[6].score
    IN  [level |-> levelOfScore(score),
         score |-> score,
         factors |-> map(filter(added, LAMBDA b : b.factor # ""),
                         LAMBDA b : b.factor)]

Maybe(values) == {NotNum} \cup {Num(v) : v \in values}

\* the metrics one location can have: each value on both sides of every
\* band boundary, or undefined
ForwardMetrics ==
    { [peakValues |-> [maxCAPE_7day |-> c7, maxCAPE_24hr |-> c24,
                       minLiftedIndex |-> li, maxDewpoint |-> dp,
                       maxWindGust_16day |-> g],
       current |-> [convective_inhibition |-> cin],
       highRiskDays |-> d] :
        c7 \in Maybe({0, 299, 300, 999, 1000, 1500, 2499, 2500, 3999, 4000, 5000}),
        c24 \in Maybe({1200}),
        li \in Maybe({-7, -6, -4, -3, -1, 0}),
        dp \in Maybe({58, 59, 67, 68}),
        g \in Maybe({29, 30, 49, 50}),
        cin \in Maybe({24, 25, 99, 100}),
        d \in Maybe({2, 3}) }

ForwardInit ==
    /\ metrics \in ForwardMetrics
    /\ assessment = [level |-> "unset"]
    /\ csvLines = <<>>
    /\ parsed = [done |-> FALSE]
    /\ alertCalls = <<>>
    /\ alertLog = <<>>
    /\ in_alerts = <<>>
    /\ in_reports = [tornado |-> <<>>]
    /\ levelDirect = "unset"
    /\ levelSupabase = "unset"
    /\ prev = [reassessed |-> FALSE]
    /\ CacheIdle
    /\ ServiceIdle

\* metrics.tornadoThreatAssessment = assessTornadoThreat(metrics)
Assess ==
    /\ assessment.level = "unset"
    /\ assessment' = assessTornadoThreat(metrics)
    /\ UNCHANGED <<in_alerts, in_reports, levelDirect, levelSupabase, prev, metrics>>
    /\ UNCHANGED <<csvLines, parsed, alertCalls, alertLog>>
    /\ UNCHANGED cacheVars
    /\ UNCHANGED serviceVars

ForwardNext == Assess

SpecForward == ForwardInit /\ [][ForwardNext]_vars

----------------------------------------------------------------------------
(* Properties of assessTornadoThreat *)

Assessed == assessment.level # "unset"

\* the value of a fact that is present
Present(x) == x.num

AllPresent ==
    /\ Present(metrics.peakValues.maxCAPE_7day)
    /\ Present(metrics.peakValues.maxCAPE_24hr)
    /\ Present(metrics.peakValues.minLiftedIndex)
    /\ Present(metrics.peakValues.maxDewpoint)
    /\ Present(metrics.peakValues.maxWindGust_16day)
    /\ Present(metrics.current.convective_inhibition)
    /\ Present(metrics.highRiskDays)

\* the band values of the terms, one band per term
CapeTerm(cape) ==
    CASE cape >= 4000 -> 40
      [] cape >= 2500 /\ cape < 4000 -> 30
      [] cape >= 1000 /\ cape < 2500 -> 20
      [] cape >= 300 /\ cape < 1000 -> 10
      [] OTHER -> 0

CapeTable ==
    [c \in {0, 299, 300, 999, 1000, 2499, 2500, 3999, 4000, 5000} |->
        CASE c \in {0, 299} -> 0
          [] c \in {300, 999} -> 10
          [] c \in {1000, 2499} -> 20
          [] c \in {2500, 3999} -> 30
          [] c \in {4000, 5000} -> 40]

LiftedIndexTerm(li) ==
    CASE li <= -6 -> 25
      [] li > -6 /\ li <= -3 -> 15
      [] li > -3 /\ li < 0 -> 5
      [] OTHER -> 0

\* 20 C is 68 F and 15 C is 59 F
DewpointTerm(dewpointF) ==
    CASE dewpointF >= 68 -> 15
      [] dewpointF >= 59 /\ dewpointF < 68 -> 10
      [] OTHER -> 0

GustTerm(gust) ==
    CASE gust >= 50 -> 15
      [] gust >= 30 /\ gust < 50 -> 10
      [] OTHER -> 0

CinTerm(cin) ==
    CASE cin < 25 -> 10
      [] cin >= 25 /\ cin < 100 -> 5
      [] OTHER -> 0

DaysTerm(days) == IF days >= 3 THEN 10 ELSE 0

\* the terms other than CAPE of metrics whose facts are all present
OtherTerms ==
    LiftedIndexTerm(metrics.peakValues.minLiftedIndex.v)
      + DewpointTerm(metrics.peakValues.maxDewpoint.v)
      + GustTerm(metrics.peakValues.maxWindGust_16day.v)
      + CinTerm(metrics.current.convective_inhibition.v)
      + DaysTerm(metrics.highRiskDays.v)

LevelOf(score) ==
    CASE score >= 70 -> "EXTREME"
      [] score >= 50 /\ score < 70 -> "HIGH"
      [] score >= 30 /\ score < 50 -> "MODERATE"
      [] score >= 15 /\ score < 30 -> "LOW"
      [] OTHER -> "MINIMAL"

\* the forward score with its CAPE term banded on the given CAPE value
ScoreIsSumOfBands(cape) ==
    /\ assessment.score = CapeTerm(cape) + OtherTerms
    /\ cape \in DOMAIN CapeTable =>
          assessment.score - OtherTerms = CapeTable[cape]
    /\ assessment.level = LevelOf(assessment.score)

\* C18 as stated: the forward score is the sum of one band value per term,
\* the CAPE term being banded on the 7-day max CAPE (0, 0, 10, 10, 20, 20,
\* 30, 30, 40, 40 for 0, 299, 300, 999, 1000, 2499, 2500, 3999, 4000, 5000),
\* and the level follows the score thresholds 70, 50, 30, 15.
C18_CapeTermOfSevenDayMax ==
    (Assessed /\ AllPresent) =>
        ScoreIsSumOfBands(metrics.peakValues.maxCAPE_7day.v)

\* C18: the forward score is the sum of one band value per term, the CAPE
\* term being banded on the 7-day max CAPE or, when that is 0, on the
\* 24-hour max CAPE; bands never stack, and the level follows the score
\* thresholds 70, 50, 30, 15.
C18_CapeTermWithFallback ==
    (Assessed /\ AllPresent) =>
        ScoreIsSumOfBands(IF metrics.peakValues.maxCAPE_7day.v # 0
                          THEN metrics.peakValues.maxCAPE_7day.v
                          ELSE metrics.peakValues.maxCAPE_24hr.v)

C18_Witness ==
    /\ Assessed
    /\ AllPresent
    /\ metrics.peakValues.maxCAPE_7day = Num(0)
    /\ metrics.peakValues.maxCAPE_24hr = Num(1200)
    /\ assessment.score = 95
    /\ assessment.level = "EXTREME"

\* every fact of the metrics is absent except the two given
OnlyCapeAndLiftedIndex(cape, li) ==
    /\ metrics.peakValues.maxCAPE_7day = cape
    /\ metrics.peakValues.minLiftedIndex = li
    /\ ~Present(metrics.peakValues.maxCAPE_24hr)
    /\ ~Present(metrics.peakValues.maxDewpoint)
    /\ ~Present(metrics.peakValues.maxWindGust_16day)
    /\ ~Present(metrics.current.convective_inhibition)
    /\ ~Present(metrics.highRiskDays)

\* C19: a missing numeric fact contributes 0 to the forward score: with only
\* capeMax7day = 1500 and liftedIndexMin = -4 present the score is 20 + 15 =
\* 35 and the level MODERATE, and with every fact absent the level is
\* MINIMAL.
C19_MissingFactsContributeZero ==
    Assessed =>
        /\ OnlyCapeAndLiftedIndex(Num(1500), Num(-4)) =>
              assessment.score = 35 /\ assessment.level = "MODERATE"
        /\ OnlyCapeAndLiftedIndex(NotNum, NotNum) =>
              assessment.level = "MINIMAL"

----------------------------------------------------------------------------
(* Properties of the distance filters *)

\* the latitudes of the reports of a list
Latitudes(reports) == {reports[k].latitude : k \in DOMAIN reports}

\* the fetched reports of a type that lie within the radius of the call
WithinRadius(e, t) ==
    filter(e.fetched[t], LAMBDA r :
             calculateDistanceMiles(e.lat, e.lon, r.latitude, r.longitude)
                 <= e.options.reportRadiusMiles * 1000)

\* getNearbyReports returns, for each type, exactly the fetched reports
\* within the radius
ReportsWithinRadius ==
    \A i \in calls :
        LET e == done[i]
        IN  (e.impl = "direct" /\ ValidInput(e) /\ e.outcome = "resolved") =>
                \A t \in validTypes :
                    Latitudes(e.result.stormReports.nearby[t])
                        = Latitudes(WithinRadius(e, t))

\* C20: for each report type getNearbyReports returns exactly the fetched
\* reports whose distance from the query point is at most the radius, and
\* every shelter of the nearby-shelter list lies within the requested
\* shelter radius.
C20_ListsWithinRadius ==
    /\ ReportsWithinRadius
    /\ \A i \in calls :
          LET e == done[i]
          IN  (e.impl = "direct" /\ ValidInput(e) /\ e.outcome = "resolved") =>
                  \A k \in DOMAIN e.result.shelters.nearby :
                      e.result.shelters.nearby[k].distanceMiles
                          <= e.options.shelterRadiusMiles * 10

\* the distance of a list element from the query point of a call
DistanceOf(e, x) == calculateDistanceMiles(e.lat, e.lon, x.latitude, x.longitude)

\* no element of the list is strictly closer than one that precedes it
AscendingBy(list, D(_)) ==
    \A j, k \in DOMAIN list : j < k => D(list[j]) <= D(list[k])

\* the lists of a result are in ascending order of the distanceMiles they carry
SortedByDistanceMiles ==
    \A i \in calls :
        LET e == done[i]
        IN  (e.impl = "direct" /\ ValidInput(e) /\ e.outcome = "resolved") =>
                /\ \A t \in validTypes :
                      AscendingBy(e.result.stormReports.nearby[t],
                                  LAMBDA r : r.distanceMiles)
                /\ AscendingBy(e.result.shelters.nearby, LAMBDA sh : sh.distanceMiles)

\* C21: the lists returned by getNearbyReports and by getNearbyShelters are
\* in ascending order of distance from the query point: no element is
\* strictly closer than one that precedes it, so summary.closestShelter is a
\* closest shelter.
C21_AscendingByDistance ==
    \A i \in calls :
        LET e == done[i]
            closestShelter == e.result.summary.closestShelter
        IN  (e.impl = "direct" /\ ValidInput(e) /\ e.outcome = "resolved") =>
                /\ \A t \in validTypes :
                      AscendingBy(e.result.stormReports.nearby[t],
                                  LAMBDA r : DistanceOf(e, r))
                /\ AscendingBy(e.result.shelters.nearby,
                               LAMBDA sh : DistanceOf(e, sh))
                /\ \A m \in DOMAIN closestShelter :
                      \A k \in DOMAIN e.result.shelters.nearby :
                          DistanceOf(e, closestShelter[m])
                              <= DistanceOf(e, e.result.shelters.nearby[k])

----------------------------------------------------------------------------
(* SpecCsv: parseStormReportsCSV of both services applied to bounded files.
   A file is the sequence of its lines, a line the sequence of its
   comma-separated parts, a part the sequence of its characters.
   Coordinates are in tenths of a degree; the modelled parts carry at most
   one decimal. *)

Digits == <<"0","1","2","3","4","5","6","7","8","9">>

isDigit(c) == \E i \in 1..Len(Digits) : Digits[i] = c

digitValue(c) == (CHOOSE i \in 1..Len(Digits) : Digits[i] = c) - 1

\* the index of the last character of the run of digits that starts at i,
\* i - 1 if there is none
digitsEnd(s, i) ==
    LET ends == {j \in i..Len(s) : \A k \in i..j : isDigit(s[k])}
    IN  IF ends = {} THEN i - 1
        ELSE CHOOSE j \in ends : \A k \in ends : k <= j

RECURSIVE natValue(_, _, _)
natValue(s, i, j) ==
    IF j < i THEN 0 ELSE natValue(s, i, j - 1) * 10 + digitValue(s[j])

\* parseFloat that insists on the whole string being a number
parseFloatStrict(s) ==
    LET signed == Len(s) >= 1 /\ s[1] \in {"-", "+"}
        i1 == IF signed THEN 2 ELSE 1
        j1 == digitsEnd(s, i1)
        hasDot == j1 + 1 <= Len(s) /\ s[j1 + 1] = "."
        j2 == IF hasDot THEN digitsEnd(s, j1 + 2) ELSE j1
        last == IF hasDot THEN j2 ELSE j1
        tenths == natValue(s, i1, j1) * 10
                    + (IF hasDot /\ j2 >= j1 + 2 THEN digitValue(s[j1 + 2]) ELSE 0)
    IN  IF j1 < i1 \/ last # Len(s) THEN NotNum
        ELSE Num(IF signed /\ s[1] = "-" THEN -tenths ELSE tenths)

\* parseFloat: leading blanks are skipped, then the longest prefix that is a
\* decimal literal is converted and the rest ignored; NaN without one
parseFloat(s) ==
    LET blanks == {i \in 1..Len(s) : \A k \in 1..i : s[k] = " "}
        i0 == Cardinality(blanks) + 1
        signed == i0 <= Len(s) /\ s[i0] \in {"-", "+"}
        i1 == IF signed THEN i0 + 1 ELSE i0
        j1 == digitsEnd(s, i1)
        hasDot == j1 + 1 <= Len(s) /\ s[j1 + 1] = "."
        j2 == IF hasDot THEN digitsEnd(s, j1 + 2) ELSE j1
        tenths == natValue(s, i1, j1) * 10
                    + (IF hasDot /\ j2 >= j1 + 2 THEN digitValue(s[j1 + 2]) ELSE 0)
    IN  IF j1 < i1 /\ ~(hasDot /\ j2 >= j1 + 2) THEN NotNum
        ELSE Num(IF signed /\ s[i0] = "-" THEN -tenths ELSE tenths)

\* String(undefined), what parseFloat makes of a part the line does not have
Undefined == <<"u","n","d","e","f","i","n","e","d">>

\* parts[i] of a line, i counted from 0
part(parts, i) == IF i + 1 <= Len(parts) THEN parts[i + 1] ELSE Undefined

KwTime == <<"T","i","m","e">>

\* lines[0].includes('Time') ? lines.slice(1) : lines
dataLines(lines) ==
    IF \E k \in DOMAIN lines[1] : includes(lines[1][k], KwTime)
    THEN Tail(lines) ELSE lines

\* the coordinates parseFloat reads off the data lines of a file
coordinateRows(lines) ==
    map(dataLines(lines), LAMBDA parts :
          [lat |-> parseFloat(part(parts, 5)), lon |-> parseFloat(part(parts, 6))])

Text(str) ==
    CASE str = "" -> <<>>
      [] str = "35.5" -> <<"3","5",".","5">>
      [] str = "0" -> <<"0">>
      [] str = "abc" -> <<"a","b","c">>
      [] str = "35.5N" -> <<"3","5",".","5","N">>
      [] str = " 36.1" -> <<" ","3","6",".","1">>
      [] str = "-97.5" -> <<"-","9","7",".","5">>
      [] str = "1955" -> <<"1","9","5","5">>
      [] str = "EF1" -> <<"E","F","1">>
      [] str = "Norman" -> <<"N","o","r","m","a","n">>
      [] str = "OK" -> <<"O","K">>
      [] str = "Time" -> KwTime
      [] str = "Lat" -> <<"L","a","t">>

LatParts == {Text(str) : str \in {"", "35.5", "0", "abc", "35.5N", " 36.1"}}

LonParts == {Text(str) : str \in {"", "-97.5", "0"}}

\* a data line of today_torn.csv, whole or cut short before its coordinates
CsvLine(lat, lon) ==
    << Text("1955"), Text("EF1"), Text("Norman"), Text("Norman"), Text("OK"),
       lat, lon >>

ShortLine == << Text("1955"), Text("EF1"), Text("Norman") >>

HeaderLine == << Text("Time"), Text("Lat") >>

CsvDataLines ==
    {ShortLine} \cup {CsvLine(lat, lon) : lat \in LatParts, lon \in LonParts}

CsvFiles ==
    LET data == UNION {[1..n -> CsvDataLines] : n \in 1..MaxLines}
    IN  data \cup {<<HeaderLine>> \o d : d \in data}

CsvInit ==
    /\ csvLines \in CsvFiles
    /\ parsed = [done |-> FALSE]
    /\ alertCalls = <<>>
    /\ alertLog = <<>>
    /\ metrics = <<>>
    /\ assessment = [level |-> "unset"]
    /\ in_alerts = <<>>
    /\ in_reports = [tornado |-> <<>>]
    /\ levelDirect = "unset"
    /\ levelSupabase = "unset"
    /\ prev = [reassessed |-> FALSE]
    /\ CacheIdle
    /\ ServiceIdle

\* this.parseStormReportsCSV(csvText, 'tornado') of either service
Parse ==
    /\ ~parsed.done
    /\ parsed' = [done |-> TRUE,
                  direct |-> parseStormReportsCSV(coordinateRows(csvLines), "tornado"),
                  supabase |-> sbParseStormReportsCSV(coordinateRows(csvLines), "tornado")]
    /\ UNCHANGED <<in_alerts, in_reports, levelDirect, levelSupabase, prev>>
    /\ UNCHANGED <<metrics, assessment, csvLines, alertCalls, alertLog>>
    /\ UNCHANGED cacheVars
    /\ UNCHANGED serviceVars

CsvNext == Parse

SpecCsv == CsvInit /\ [][CsvNext]_vars

----------------------------------------------------------------------------
(* Properties of parseStormReportsCSV *)

\* a part that is present and numeric: blanks around a decimal number
Trimmed(s) ==
    LET inner == {i \in 1..Len(s) : s[i] # " "}
    IN  IF inner = {} THEN <<>>
        ELSE SubSeq(s, CHOOSE i \in inner : \A k \in inner : i <= k,
                       CHOOSE i \in inner : \A k \in inner : k <= i)

NumericPart(parts, i) ==
    /\ i + 1 <= Len(parts)
    /\ parseFloatStrict(Trimmed(parts[i + 1])).num

\* the coordinates of the data lines whose two coordinate parts are numeric
NumericRows(lines) ==
    map(filter(dataLines(lines), LAMBDA parts :
                 NumericPart(parts, 5) /\ NumericPart(parts, 6)),
        LAMBDA parts : [latitude |-> parseFloatStrict(Trimmed(parts[6])).v,
                        longitude |-> parseFloatStrict(Trimmed(parts[7])).v])

Coordinates(reports) ==
    map(reports, LAMBDA r : [latitude |-> r.latitude, longitude |-> r.longitude])

\* no report carries a coordinate 0
NoZeroCoordinate ==
    parsed.done =>
        \A k \in DOMAIN parsed.direct :
            parsed.direct[k].latitude # 0 /\ parsed.direct[k].longitude # 0

\* C22: parseStormReportsCSV outputs a report for a data row if and only if
\* both coordinate fields of the row are present and numeric, with exactly
\* those coordinates: the reports are the rows with two numeric coordinates,
\* in order, in both services.
C22_ReportIffNumericCoordinates ==
    parsed.done =>
        /\ Coordinates(parsed.direct) = NumericRows(csvLines)
        /\ Coordinates(parsed.supabase) = NumericRows(csvLines)

----------------------------------------------------------------------------
(* SpecConcurrent: callers of NWSAlertsService.getActiveAlerts (fetchAllData,
   checkTornadoDanger through getTornadoAlerts) sharing one cache, their
   requests in flight at the same time, while time passes *)

\* a cache key that embeds the coordinates as given
alertsKeyUnrounded(lat, lon) == [name |-> "nws_alerts", p |-> lat.v, q |-> lon.v]

\* the cache key of a getActiveAlerts call
alertCallKey(lat, lon) == alertsKey(lat, lon)

\* three points of Oklahoma City: the first two round to 35.47, the third
\* to 35.48
AlertLats == {Num(35468), Num(35470), Num(35476)}

ConcurrentInit ==
    /\ world = 2
    /\ app = [impl |-> "alerts"]
    /\ call = NoCall
    /\ done = <<>>
    /\ db = [weather_alerts_history |-> {}, storm_reports_history |-> <<>>]
    /\ CacheIdle
    /\ ThreatIdle

\* getActiveAlerts(lat, lon) up to its first await: the cached alerts are
\* returned, or the request is issued
GetActiveAlerts(lat, lon) ==
    /\ app.impl = "alerts"
    /\ Len(alertCalls) < MaxAlertCalls
    /\ LET key == alertCallKey(lat, lon)
           r == get(cache, key, now)
           id == Len(alertCalls) + 1
       IN  /\ cache' = r.cache
           /\ alertCalls' = Append(alertCalls,
                  [lat |-> lat, lon |-> lon, key |-> key,
                   st |-> firstAwait("alerts", FALSE, r.found),
                   result |-> IF r.found THEN r.data ELSE <<>>])
           /\ alertLog' = Append(alertLog,
                  [kind |-> "call", id |-> id, key |-> key, at |-> now,
                   hit |-> r.found,
                   result |-> IF r.found THEN r.data ELSE <<>>])
    /\ UNCHANGED <<now, getResult, lastSet>>
    /\ UNCHANGED serviceVars
    /\ UNCHANGED <<in_alerts, in_reports, levelDirect, levelSupabase, prev>>
    /\ UNCHANGED <<metrics, assessment, csvLines, parsed>>

\* the request of a call ends: the alerts are stored and returned, or the
\* error is rethrown
AlertsRespond(id, outcome) ==
    /\ id \in DOMAIN alertCalls
    /\ alertCalls[id].st = "pending"
    /\ LET good == succeeds("alerts", outcome)
           alerts == IF good THEN activeAlerts(Worlds[world].feed) ELSE <<>>
           key == alertCalls[id].key
       IN  /\ cache' = IF good THEN set(cache, key, alerts, ALERTS, now) ELSE cache
           /\ alertCalls' = [alertCalls EXCEPT
                                ![id].st = afterResponse(good, 1),
                                ![id].result = alerts]
           /\ alertLog' = Append(alertLog,
                  [kind |-> "response", id |-> id, key |-> key, at |-> now,
                   ok |-> good, result |-> alerts])
    /\ UNCHANGED <<now, getResult, lastSet>>
    /\ UNCHANGED serviceVars
    /\ UNCHANGED <<in_alerts, in_reports, levelDirect, levelSupabase, prev>>
    /\ UNCHANGED <<metrics, assessment, csvLines, parsed>>

\* time passes
AlertTick ==
    /\ app.impl = "alerts"
    /\ now < MaxAlertTicks * AlertTickMs
    /\ now' = now + AlertTickMs
    /\ UNCHANGED <<cache, getResult, lastSet, alertCalls, alertLog>>
    /\ UNCHANGED serviceVars
    /\ UNCHANGED <<in_alerts, in_reports, levelDirect, levelSupabase, prev>>
    /\ UNCHANGED <<metrics, assessment, csvLines, parsed>>

ConcurrentNext ==
    \/ \E lat \in AlertLats : GetActiveAlerts(lat, OkcLon)
    \/ \E id \in 1..MaxAlertCalls, outcome \in {"ok", "network"} :
          AlertsRespond(id, outcome)
    \/ AlertTick

SpecConcurrent == ConcurrentInit /\ [][ConcurrentNext]_vars

----------------------------------------------------------------------------
(* Properties of the cache keys *)

\* coordinates that round to the same two decimals
SameRounded(a, b) ==
    /\ toFixed2(a.lat.v) = toFixed2(b.lat.v)
    /\ toFixed2(a.lon.v) = toFixed2(b.lon.v)

----------------------------------------------------------------------------
(* Cache durations *)

\* the configured time to live of a key, in milliseconds, by the source the
\* key's name belongs to
FixedTtl(key) ==
    CASE key.name = "nws_alerts" -> 2 * 60 * 1000
      [] key.name = "fema_shelters_OK" -> 5 * 60 * 1000
      [] key.name \in {"spc_today_tornado", "spc_today_wind",
                       "spc_today_hail"} -> 10 * 60 * 1000

\* the keys a step writes: those that are new or carry a new expiry time
Written(k) ==
    /\ k \in DOMAIN cache'
    /\ k \notin DOMAIN cache \/ cache'[k].expiry # cache[k].expiry

\* C24: every cache entry a service writes expires exactly the fixed time
\* to live of its source after the write (alerts 2 minutes, shelters 5
\* minutes, storm reports 10 minutes), whatever the request's parameters
\* and the payload; the services write no entry of any other source.
C24_EntriesExpireAfterFixedTtl ==
    [][\A k \in DOMAIN cache' :
          Written(k) => cache'[k].expiry = now + FixedTtl(k)]_vars

\* an alerts entry written a second time, after the first has expired, next
\* to a shelters entry and a storm-report entry still alive
C24_Witness ==
    /\ now = TickMs
    /\ \E k \in DOMAIN cache :
          k.name = "nws_alerts" /\ cache[k].expiry = TickMs + 2 * 60 * 1000
    /\ \E k \in DOMAIN cache :
          k.name = "fema_shelters_OK" /\ cache[k].expiry = 5 * 60 * 1000
    /\ \E k \in DOMAIN cache :
          k.name = "spc_today_hail" /\ cache[k].expiry = 10 * 60 * 1000

----------------------------------------------------------------------------
(* clearCache *)

\* the entry of done before entry i is a clearCache
AfterClear(i) == i > 1 /\ done[i - 1].impl = "clearCache"

\* a call that took no source from the cache: every source whose method did
\* not throw before its request had its request issued
AsksProviders(st, reqs) ==
    \A s \in Sources :
        /\ st[s] # "hit"
        /\ st[s] # "threw" => s \in reqs

\* C25: after clearCache the cache holds no entry, whatever it held before,
\* so a get of any key is absent until that key is set again, and the next
\* fetchAllData call takes no source from the cache: it asks the provider
\* of every source.
C25_ClearDropsEveryEntry ==
    /\ ( /\ done # <<>>
         /\ done[Len(done)].impl = "clearCache"
         /\ call.impl = "none" )
       => /\ cache = EmptyMap
          /\ \A k \in {alertsKey(i.lat, i.lon) : i \in DirectInputs}
                      \cup {reportsKey(t) : t \in validTypes}
                      \cup {sheltersKey("OK")} :
                ~get(cache, k, now).found
    /\ ( /\ done # <<>>
         /\ done[Len(done)].impl = "clearCache"
         /\ call.impl = "direct" )
       => \A s \in Sources : call.st[s] # "hit"
    /\ \A j \in calls :
          AfterClear(j) => AsksProviders(done[j].st, done[j].reqs)

\* every source fetched and stored, the cache cleared at once, and a second
\* call with the same coordinates, made while every entry would still have
\* been alive, that asks all six providers
C25_Witness ==
    /\ Len(done) = 3
    /\ done[1].impl = "direct" /\ done[1].cacheWrites = Sources \ {"nearbyShelters"}
    /\ done[2].impl = "clearCache"
    /\ done[3].impl = "direct" /\ done[3].reqs = Sources
    /\ done[3].lat = done[1].lat /\ done[3].lon = done[1].lon
    /\ done[3].startTime = done[1].endTime

----------------------------------------------------------------------------
(* Concurrent calls on one cache key *)

\* the calls whose request is in flight
PendingCalls == {i \in DOMAIN alertCalls : alertCalls[i].st = "pending"}

\* C26 as stated: at most one provider request per cache key is in flight:
\* a call that finds a key absent while another call's request for that key
\* is still pending issues no second request for it.
C26_OneRequestPerKey ==
    \A i, j \in PendingCalls :
        alertCalls[i].key = alertCalls[j].key => i = j

\* the successful responses for the key of log entry b that precede it
StoredBefore(b) ==
    {a \in 1..(b - 1) : /\ alertLog[a].kind = "response"
                        /\ alertLog[a].ok
                        /\ alertLog[a].key = alertLog[b].key}

\* the latest successful response for a key
LatestStored(k) ==
    LET rs == {a \in DOMAIN alertLog : /\ alertLog[a].kind = "response"
                                       /\ alertLog[a].ok
                                       /\ alertLog[a].key = k}
    IN  CHOOSE a \in rs : \A o \in rs : o <= a

\* C26: a getActiveAlerts call issues a provider request exactly when no
\* successful response for its key was stored within the alerts TTL before
\* it, whether or not another call's request for that key is pending; every
\* successful response overwrites the key's entry, so the entry is that of
\* the latest response (last write wins).
C26_RequestUnlessStored ==
    /\ \A b \in DOMAIN alertLog :
          alertLog[b].kind = "call" =>
              ( alertLog[b].hit <=>
                  \E a \in StoredBefore(b) :
                      alertLog[b].at <= alertLog[a].at + ALERTS )
    /\ \A k \in DOMAIN cache :
          /\ cache[k].expiry = alertLog[LatestStored(k)].at + ALERTS
          /\ cache[k].data = alertLog[LatestStored(k)].result

\* two calls with one key, both sent to the provider, answered at different
\* times: the entry carries the time of the second answer
C26_Witness ==
    /\ Len(alertLog) = 4
    /\ alertLog[1].kind = "call" /\ ~alertLog[1].hit
    /\ alertLog[2].kind = "call" /\ ~alertLog[2].hit
    /\ alertLog[1].key = alertLog[2].key
    /\ alertLog[3].kind = "response" /\ alertLog[3].ok
    /\ alertLog[4].kind = "response" /\ alertLog[4].ok
    /\ alertLog[4].at > alertLog[3].at
    /\ cache[alertLog[1].key].expiry = alertLog[4].at + ALERTS

----------------------------------------------------------------------------
(* Database logging *)

\* C27: a fetchAllData call of the Supabase-backed service made with
\* logToDatabase = false writes to no table: neither weather_alerts_history
\* nor storm_reports_history changes while the call runs.
C27_NoWriteWithoutLogging ==
    [][( /\ call.impl = "supabase"
         /\ ~call.options.logToDatabase ) => db' = db]_vars

----------------------------------------------------------------------------
(* The two threat cascades *)

\* C28: for every alert list and every storm-report set the Supabase-backed
\* calculateThreatLevel, reading event_type, returns the level the
\* direct-API calculateThreatLevel returns reading event: MODERATE only for
\* alerts containing 'watch', LOW for any other active alert.
C28_CascadesAgree ==
    ( /\ levelDirect # "unset"
      /\ levelSupabase # "unset" )
    => levelSupabase = levelDirect

----------------------------------------------------------------------------
(* Failed fetches and the cache *)

\* the fetch of a source failed: its method threw after the request, or the
\* payload it was given was malformed
FetchFailed(e, s) == e.st[s] = "failed" \/ s \in e.malformed

\* no source whose fetch failed in call e has an entry in the cache
NothingStoredFor(e) ==
    \A s \in Sources :
        (hasCacheKey(s) /\ FetchFailed(e, s)) =>
            cacheKeyOf(e, s) \notin DOMAIN cache

\* C29: a provider fetch that fails (network error, timeout, non-2xx status
\* or malformed payload) stores nothing: in a call made on an empty cache
\* the key of every source whose fetch failed stays absent, so no later call
\* receives a cached error or a cached substitute empty result.
C29_FailedFetchStoresNothing ==
    /\ call.impl = "direct" => NothingStoredFor(call)
    /\ \A i \in calls : done[i].impl = "direct" => NothingStoredFor(done[i])

----------------------------------------------------------------------------
(* SpecLogging: an application fetching twice through the Supabase-backed
   service with logging on, the providers and the database answering well *)

LoggingInit ==
    /\ world \in 1..Len(Worlds)
    /\ app = [impl |-> "supabase", configured |-> TRUE, maxCalls |-> MaxCalls]
    /\ call = NoCall
    /\ done = <<>>
    /\ db = [weather_alerts_history |-> {}, storm_reports_history |-> <<>>]
    /\ CacheIdle
    /\ ThreatIdle

LoggingNext ==
    \/ SbFetchAllData(OkcLat, OkcLon, SbOptions(TRUE))
    \/ \E src \in SbSources : SbRespond(src, "ok", "ok")

SpecLogging == LoggingInit /\ [][LoggingNext]_vars

\* C30: after any sequence of Supabase-backed fetches with logging on,
\* storm_reports_history holds no storm report twice: fetching the same
\* day's reports again adds no duplicate row.
C30_NoDuplicateReportRows ==
    \A i, j \in DOMAIN db.storm_reports_history :
        db.storm_reports_history[i] = db.storm_reports_history[j] => i = j

====
